---- MODULE Spec2Model ----
(***************************************************************************)
(* GestureAgent: the gesture detection engine (baseline and extended       *)
(* profile) and the application orchestrator (camera loop, start/stop,     *)
(* error handling), modelled from the Python sources.                      *)
(*                                                                         *)
(* Units.  Time is counted in ticks of 0.1 s (1.5 s = 15 ticks).           *)
(* Landmark coordinates are hundredths of the normalized image size        *)
(* (0.05 = 5).  time.time() returns seconds since 1970, so every clock     *)
(* reading is far larger than any cooldown: the clock starts at Epoch.     *)
(***************************************************************************)
EXTENDS Integers, Sequences, FiniteSets, TLC

VARIABLES
    now,        \* the wall clock read by time.time(), in ticks
    profile,    \* which gesture_detector.py is loaded: "baseline" / "extended"
    det,        \* the GestureDetector instance (its self.* fields)
    obs,        \* what the last detector call returned (locals of that call)
    track,      \* history variables about the frames fed so far
    feed,       \* the frames the camera can deliver in this run
    running,    \* GestureAgentCore.running
    camera,     \* GestureAgentCore.camera: "None", "open", "unopened"
    pcLoop,     \* position of the QThread running GestureAgentCore.run
    loc,        \* locals of GestureAgentCore.run
    pcGui,      \* position of the GUI thread
    errq,       \* error_occurred emissions queued for the GUI thread
    gui,        \* MainWindow widgets: start button text, status line
    hist,       \* history variables about the orchestrator
    ai,         \* the AIAssistant object and the remote service it talks to
    workers,    \* the background threads started by _handle_gesture
    cfg         \* the settings file, the settings documents in memory and
                \* the screenshot directory with the screen it is filled from

engineVars == <<profile, det, obs, track, feed>>
detVars == <<profile, det, track, feed>>
svcVars == <<ai, workers, cfg>>
orchVars == <<running, camera, pcLoop, loc, pcGui, errq, gui, hist, ai, workers, cfg>>
vars == <<now, profile, det, obs, track, feed, running, camera, pcLoop, loc, pcGui, errq, gui,
          hist, ai, workers, cfg>>

-----------------------------------------------------------------------------
(* Program constants *)

\* Python's None for an unset dwell timer (timers are clock readings otherwise)
None == -1
\* Python's None / "" for an absent gesture label
Absent == ""

WaveFingersMin == 3
WaveHistoryMax == 10
WaveMinSamples == 8
WaveMinChanges == 2
WaveMinRange == 10
ExtensionGap == 5
SpreadGap == 5
PalmUpDwell == 15
ThumbsUpDwell == 10
PeaceSignDwell == 10
FistDwell == 10
FaceDetectedDwell == 15
WinkDwell == 5
SmileDwell == 10
EyebrowsDwell == 10
eye_aspect_ratio_threshold == 25
EyeHistoryMax == 5
BlinkMinSamples == 3
SmileRatio == 3
EyebrowGap == 2
gesture_cooldown == 20
outer_gesture_cooldown == 30

\* The first clock reading: later than either cooldown after time 0
Epoch == outer_gesture_cooldown + 1

-----------------------------------------------------------------------------
(* Bounds of the model *)

MaxTime == 40        \* ticks the clock runs past Epoch
MaxSamples == 10     \* samples fed to detect_wave_gesture in one run
MaxEngineTime == 60  \* ticks SpecEngine runs past Epoch

-----------------------------------------------------------------------------
(* Small helpers *)

Abs(n) == IF n < 0 THEN -n ELSE n

Max(S) == CHOOSE m \in S : \A n \in S : n <= m

Min(S) == CHOOSE m \in S : \A n \in S : m <= n

Range(s) == {s[i] : i \in 1..Len(s)}

\* numpy.linalg.norm of an integer vector, rounded down
Isqrt(n) == CHOOSE r \in 0..150 : r * r <= n /\ n < (r + 1) * (r + 1)

Dist(p, q) == Isqrt((p.x - q.x) * (p.x - q.x) + (p.y - q.y) * (p.y - q.y))

-----------------------------------------------------------------------------
(* Hand landmarks: the 21-point topology of the hand model, as far as the  *)
(* rules read it.  A hand is a function from landmark index to [x, y].     *)

HandIdx == {0, 2, 4, 5, 6, 8, 9, 10, 12, 13, 14, 16, 17, 18, 20}

\* A hand whose base joints are fixed and whose tips are given:
\* wx wrist x; thumbY thumb tip y; tips = <<index, middle, ring, pinky>> tip y;
\* spread = horizontal distance between index and middle tips.
MkHand(wx, thumbY, tips, spread) ==
    [i \in HandIdx |->
        CASE i = 0  -> [x |-> wx, y |-> 90]
          [] i = 2  -> [x |-> wx - 10, y |-> 65]
          [] i = 4  -> [x |-> wx - 15, y |-> thumbY]
          [] i \in {5, 9, 13, 17}  -> [x |-> wx, y |-> 60]
          [] i \in {6, 10, 14, 18} -> [x |-> wx, y |-> 50]
          [] i = 8  -> [x |-> wx, y |-> tips[1]]
          [] i = 12 -> [x |-> wx + spread, y |-> tips[2]]
          [] i = 16 -> [x |-> wx, y |-> tips[3]]
          [] i = 20 -> [x |-> wx, y |-> tips[4]]]

PalmPose(wx) == MkHand(wx, 62, <<30, 30, 30, 30>>, 3)
RelaxedPose(wx) == MkHand(wx, 62, <<57, 57, 57, 57>>, 3)
FistPose(wx) == MkHand(wx, 70, <<70, 70, 70, 70>>, 3)
ThumbsUpPose(wx) == MkHand(wx, 40, <<70, 70, 70, 70>>, 3)
PeacePose(wx) == MkHand(wx, 70, <<30, 30, 70, 70>>, 10)

-----------------------------------------------------------------------------
(* The dwell-timer block shared by every dwell-timed rule:                 *)
(*   if cond: if start is None: start = time.time()                        *)
(*            elif time.time() - start > dwell: start = None; return True  *)
(*   else: start = None                                                    *)
(*   return False                                                          *)

\* Faulty variant of DwellStep: fires one tick early
DwellBuggyGe(cond, start, dwell, t) ==
    IF cond
    THEN IF start = None THEN [start |-> t, fired |-> FALSE]
         ELSE IF t - start >= dwell - 1 THEN [start |-> None, fired |-> TRUE]
         ELSE [start |-> start, fired |-> FALSE]
    ELSE [start |-> None, fired |-> FALSE]

DwellStep(cond, start, dwell, t) ==
    IF cond
    THEN IF start = None THEN [start |-> t, fired |-> FALSE]
         ELSE IF t - start > dwell THEN [start |-> None, fired |-> TRUE]
         ELSE [start |-> start, fired |-> FALSE]
    ELSE [start |-> None, fired |-> FALSE]

-----------------------------------------------------------------------------
(* detect_wave_gesture *)

FingersUp(lm) ==
    Cardinality({f \in {<<8, 6>>, <<12, 10>>, <<16, 14>>, <<20, 18>>} :
                    lm[f[1]].y < lm[f[2]].y})

\* numpy.diff
Diff(s) == [i \in 1..(Len(s) - 1) |-> s[i + 1] - s[i]]

DirectionChanges(xd) ==
    Cardinality({i \in 2..Len(xd) :
        \/ xd[i] > 0 /\ xd[i - 1] < 0
        \/ xd[i] < 0 /\ xd[i - 1] > 0})

\* Faulty variant of detect_wave_gesture: keeps the history when it fires
WaveNoClear(d, lm) ==
    IF FingersUp(lm) >= WaveFingersMin
    THEN LET h1 == Append(d.wave_history, lm[0].x)
             h2 == IF Len(h1) > WaveHistoryMax THEN Tail(h1) ELSE h1
         IN  IF /\ Len(h2) >= WaveMinSamples
                /\ DirectionChanges(Diff(h2)) >= WaveMinChanges
                /\ Max(Range(h2)) - Min(Range(h2)) > WaveMinRange
             THEN [d |-> [d EXCEPT !.wave_history = h2], fired |-> TRUE]
             ELSE [d |-> [d EXCEPT !.wave_history = h2], fired |-> FALSE]
    ELSE [d |-> [d EXCEPT !.wave_history = <<>>], fired |-> FALSE]

detect_wave_gesture(d, lm) ==
    IF FingersUp(lm) >= WaveFingersMin
    THEN LET h1 == Append(d.wave_history, lm[0].x)
             h2 == IF Len(h1) > WaveHistoryMax THEN Tail(h1) ELSE h1
         IN  IF /\ Len(h2) >= WaveMinSamples
                /\ DirectionChanges(Diff(h2)) >= WaveMinChanges
                /\ Max(Range(h2)) - Min(Range(h2)) > WaveMinRange
             THEN [d |-> [d EXCEPT !.wave_history = <<>>], fired |-> TRUE]
             ELSE [d |-> [d EXCEPT !.wave_history = h2], fired |-> FALSE]
    ELSE [d |-> [d EXCEPT !.wave_history = <<>>], fired |-> FALSE]

-----------------------------------------------------------------------------
(* The dwell-timed hand rules *)

FingerPairs == {<<8, 5>>, <<12, 9>>, <<16, 13>>, <<20, 17>>}

PalmUpCond(lm) ==
    /\ \A f \in FingerPairs : lm[f[1]].y < lm[f[2]].y
    /\ \A f \in FingerPairs : Abs(lm[f[1]].y - lm[f[2]].y) > ExtensionGap

detect_palm_up_gesture(d, lm, t) ==
    LET r == DwellStep(PalmUpCond(lm), d.palm_up_start_time, PalmUpDwell, t)
    IN  [d |-> [d EXCEPT !.palm_up_start_time = r.start], fired |-> r.fired]

ThumbsUpCond(lm) ==
    /\ lm[4].y < lm[2].y
    /\ \A f \in FingerPairs : lm[f[1]].y > lm[f[2]].y

detect_thumbs_up_gesture(d, lm, t) ==
    LET r == DwellStep(ThumbsUpCond(lm), d.thumbs_up_start_time, ThumbsUpDwell, t)
    IN  [d |-> [d EXCEPT !.thumbs_up_start_time = r.start], fired |-> r.fired]

PeaceSignCond(lm) ==
    /\ lm[8].y < lm[5].y
    /\ lm[12].y < lm[9].y
    /\ lm[16].y > lm[13].y
    /\ lm[20].y > lm[17].y
    /\ Abs(lm[8].x - lm[12].x) > SpreadGap

detect_peace_sign_gesture(d, lm, t) ==
    LET r == DwellStep(PeaceSignCond(lm), d.peace_sign_start_time, PeaceSignDwell, t)
    IN  [d |-> [d EXCEPT !.peace_sign_start_time = r.start], fired |-> r.fired]

FistCond(lm) ==
    /\ lm[4].y > lm[2].y
    /\ \A f \in FingerPairs : lm[f[1]].y > lm[f[2]].y

detect_fist_gesture(d, lm, t) ==
    LET r == DwellStep(FistCond(lm), d.fist_start_time, FistDwell, t)
    IN  [d |-> [d EXCEPT !.fist_start_time = r.start], fired |-> r.fired]

-----------------------------------------------------------------------------
(* Face rules (extended profile).  A face is a function from the face-mesh *)
(* landmark indices the rules read to [x, y].                              *)

left_eye_indices == <<362, 385, 387, 263, 373, 380>>
right_eye_indices == <<33, 160, 158, 133, 153, 144>>

FaceIdx == Range(left_eye_indices) \cup Range(right_eye_indices)
              \cup {61, 291, 13, 14, 70, 300, 159, 386}

\* A face with the given eye openings, mouth width and height, mouth-corner
\* height and eyebrow-to-eyelid gap.
MkFace(le, re, mw, mh, cornerY, gap) ==
    [i \in FaceIdx |->
        CASE i = 362 -> [x |-> 60, y |-> 40]
          [] i = 385 -> [x |-> 65, y |-> 40 - le]
          [] i = 387 -> [x |-> 75, y |-> 40 - le]
          [] i = 263 -> [x |-> 80, y |-> 40]
          [] i = 373 -> [x |-> 75, y |-> 40]
          [] i = 380 -> [x |-> 65, y |-> 40]
          [] i = 33  -> [x |-> 20, y |-> 40]
          [] i = 160 -> [x |-> 25, y |-> 40 - re]
          [] i = 158 -> [x |-> 35, y |-> 40 - re]
          [] i = 133 -> [x |-> 40, y |-> 40]
          [] i = 153 -> [x |-> 35, y |-> 40]
          [] i = 144 -> [x |-> 25, y |-> 40]
          [] i = 61  -> [x |-> 30, y |-> cornerY]
          [] i = 291 -> [x |-> 30 + mw, y |-> cornerY]
          [] i = 13  -> [x |-> 50, y |-> 70]
          [] i = 14  -> [x |-> 50, y |-> 70 + mh]
          [] i = 159 -> [x |-> 30, y |-> 34]
          [] i = 70  -> [x |-> 30, y |-> 34 - gap]
          [] i = 386 -> [x |-> 70, y |-> 34]
          [] i = 300 -> [x |-> 70, y |-> 34 - gap]]

NeutralFace == MkFace(6, 6, 20, 10, 76, 2)
ClosedEyesFace == MkFace(2, 2, 20, 10, 76, 2)
WinkFace == MkFace(2, 6, 20, 10, 76, 2)
SmileFace == MkFace(6, 6, 40, 10, 70, 2)
EyebrowsFace == MkFace(6, 6, 20, 10, 76, 4)

\* The eye aspect ratio (A + B) / (2 C), in hundredths
calculate_eye_aspect_ratio(eye) ==
    LET A == Dist(eye[2], eye[6])
        B == Dist(eye[3], eye[5])
        C == Dist(eye[1], eye[4])
    IN  ((A + B) * 100) \div (2 * C)

LeftEar(fl) == calculate_eye_aspect_ratio([k \in 1..6 |-> fl[left_eye_indices[k]]])

RightEar(fl) == calculate_eye_aspect_ratio([k \in 1..6 |-> fl[right_eye_indices[k]]])

\* Faulty variant of detect_blink_gesture: only the left-eye history is
\* shortened when it grows past its bound
BlinkPopLeftOnly(d, fl) ==
    LET l == LeftEar(fl)
        r == RightEar(fl)
        lh1 == Append(d.left_eye_history, l)
        rh == Append(d.right_eye_history, r)
        lh == IF Len(lh1) > EyeHistoryMax THEN Tail(lh1) ELSE lh1
        n == Len(lh)
    IN  [d |-> [d EXCEPT !.left_eye_history = lh, !.right_eye_history = rh],
         fired |-> /\ n >= BlinkMinSamples
                   /\ l + r < 2 * eye_aspect_ratio_threshold
                   /\ \A k \in {n - 2, n - 1} : lh[k] > eye_aspect_ratio_threshold]

detect_blink_gesture(d, fl) ==
    LET l == LeftEar(fl)
        r == RightEar(fl)
        lh1 == Append(d.left_eye_history, l)
        rh1 == Append(d.right_eye_history, r)
        pop == Len(lh1) > EyeHistoryMax
        lh == IF pop THEN Tail(lh1) ELSE lh1
        rh == IF pop THEN Tail(rh1) ELSE rh1
        n == Len(lh)
    IN  [d |-> [d EXCEPT !.left_eye_history = lh, !.right_eye_history = rh],
         fired |-> /\ n >= BlinkMinSamples
                   /\ l + r < 2 * eye_aspect_ratio_threshold
                   /\ \A k \in {n - 2, n - 1} : lh[k] > eye_aspect_ratio_threshold]

WinkCond(fl) ==
    \/ LeftEar(fl) < eye_aspect_ratio_threshold /\ RightEar(fl) > eye_aspect_ratio_threshold
    \/ RightEar(fl) < eye_aspect_ratio_threshold /\ LeftEar(fl) > eye_aspect_ratio_threshold

detect_wink_gesture(d, fl, t) ==
    LET r == DwellStep(WinkCond(fl), d.wink_start_time, WinkDwell, t)
    IN  [d |-> [d EXCEPT !.wink_start_time = r.start], fired |-> r.fired]

SmileCond(fl) ==
    LET mouth_width == Abs(fl[291].x - fl[61].x)
        mouth_height == Abs(fl[13].y - fl[14].y)
    IN  /\ mouth_height > 0
        /\ mouth_width > SmileRatio * mouth_height
        /\ 2 * fl[61].y < fl[13].y + fl[14].y
        /\ 2 * fl[291].y < fl[13].y + fl[14].y

detect_smile_gesture(d, fl, t) ==
    LET r == DwellStep(SmileCond(fl), d.smile_start_time, SmileDwell, t)
    IN  [d |-> [d EXCEPT !.smile_start_time = r.start], fired |-> r.fired]

EyebrowsCond(fl) ==
    Abs(fl[70].y - fl[159].y) + Abs(fl[300].y - fl[386].y) > 2 * EyebrowGap

detect_eyebrows_raised_gesture(d, fl, t) ==
    LET r == DwellStep(EyebrowsCond(fl), d.eyebrows_raised_start_time, EyebrowsDwell, t)
    IN  [d |-> [d EXCEPT !.eyebrows_raised_start_time = r.start], fired |-> r.fired]

\* face_detections.detections is non-empty iff `present`
detect_face_gesture(d, present, t) ==
    LET r == DwellStep(present, d.face_detected_start_time, FaceDetectedDwell, t)
    IN  [d |-> [d EXCEPT !.face_detected_start_time = r.start], fired |-> r.fired]

-----------------------------------------------------------------------------
(* process_frame.  A frame, after landmark inference, is                   *)
(*   hands      : the list zip(multi_hand_landmarks, multi_handedness),    *)
(*                each [label, lm] with the model's "Left"/"Right" label   *)
(*   mesh       : face_mesh_results.multi_face_landmarks (at most 1 face)  *)
(*   detections : whether face_results.detections is non-empty            *)

\* The elif chain run on one hand (extended profile)
HandChain(d, lm, t) ==
    LET w == detect_wave_gesture(d, lm) IN
    IF w.fired THEN [d |-> w.d, g |-> "wave"] ELSE
    LET p == detect_palm_up_gesture(w.d, lm, t) IN
    IF p.fired THEN [d |-> p.d, g |-> "palm_up"] ELSE
    LET u == detect_thumbs_up_gesture(p.d, lm, t) IN
    IF u.fired THEN [d |-> u.d, g |-> "thumbs_up"] ELSE
    LET v == detect_peace_sign_gesture(u.d, lm, t) IN
    IF v.fired THEN [d |-> v.d, g |-> "peace_sign"] ELSE
    LET f == detect_fist_gesture(v.d, lm, t) IN
    IF f.fired THEN [d |-> f.d, g |-> "fist"] ELSE [d |-> f.d, g |-> Absent]

\* Faulty variant of AssignRole: takes the model's label as the user's hand
AssignUnmirrored(acc, label, g) ==
    IF g = Absent THEN acc
    ELSE IF label = "Left" THEN [acc EXCEPT !.left = g]
    ELSE IF label = "Right" THEN [acc EXCEPT !.right = g]
    ELSE acc

\* Store what one hand fired under its role: the hand model's label is
\* mirrored, "Right" is the user's left hand and "Left" the right hand.
AssignRole(acc, label, g) ==
    LET is_right_hand == label = "Left"
        is_left_hand == label = "Right"
    IN  IF g = Absent THEN acc
        ELSE IF is_left_hand THEN [acc EXCEPT !.left = g]
        ELSE IF is_right_hand THEN [acc EXCEPT !.right = g]
        ELSE acc

\* The for loop over the visible hands, from hand i on; acc holds
\* detected_left_hand_gesture and detected_right_hand_gesture
RECURSIVE HandsLoop(_, _, _, _, _)
HandsLoop(d, hands, i, acc, t) ==
    IF i > Len(hands) THEN [d |-> d, left |-> acc.left, right |-> acc.right]
    ELSE LET h == HandChain(d, hands[i].lm, t)
         IN  HandsLoop(h.d, hands, i + 1, AssignRole(acc, hands[i].label, h.g), t)

\* The elif chain run on the face mesh, falling back to the coarse detector
FaceChain(d, frame, t) ==
    IF Len(frame.mesh) > 0
    THEN LET fl == frame.mesh[1]
             b == detect_blink_gesture(d, fl) IN
         IF b.fired THEN [d |-> b.d, g |-> "blink"] ELSE
         LET w == detect_wink_gesture(b.d, fl, t) IN
         IF w.fired THEN [d |-> w.d, g |-> "wink"] ELSE
         LET s == detect_smile_gesture(w.d, fl, t) IN
         IF s.fired THEN [d |-> s.d, g |-> "smile"] ELSE
         LET e == detect_eyebrows_raised_gesture(s.d, fl, t) IN
         IF e.fired THEN [d |-> e.d, g |-> "eyebrows_raised"] ELSE [d |-> e.d, g |-> Absent]
    ELSE LET f == detect_face_gesture(d, frame.detections, t) IN
         [d |-> f.d, g |-> IF f.fired THEN "face_detected" ELSE Absent]

\* Faulty variant of ComposeLabel: tests the hand+face pairs before both hands
ComposeFaceFirst(L, R, F) ==
    IF L # Absent /\ F # Absent THEN "left_" \o L \o "+" \o F
    ELSE IF R # Absent /\ F # Absent THEN "right_" \o R \o "+" \o F
    ELSE IF L # Absent /\ R # Absent THEN "left_" \o L \o "+right_" \o R
    ELSE IF L # Absent THEN "left_" \o L
    ELSE IF R # Absent THEN "right_" \o R
    ELSE F

\* The label composed from what the left hand, the right hand and the face
\* fired in this frame
ComposeLabel(L, R, F) ==
    IF L # Absent /\ R # Absent /\ F # Absent
        THEN "left_" \o L \o "+right_" \o R \o "+" \o F
    ELSE IF L # Absent /\ R # Absent THEN "left_" \o L \o "+right_" \o R
    ELSE IF L # Absent /\ F # Absent THEN "left_" \o L \o "+" \o F
    ELSE IF R # Absent /\ F # Absent THEN "right_" \o R \o "+" \o F
    ELSE IF L # Absent THEN "left_" \o L
    ELSE IF R # Absent THEN "right_" \o R
    ELSE F

\* Faulty variant of EngineGate: returning a label does not restart the cooldown
GateNoReset(d, L, R, F, t) ==
    LET elapsed == (t - d.last_gesture_time) > gesture_cooldown
        label == IF elapsed THEN ComposeLabel(L, R, F) ELSE Absent
    IN  [d |-> d, label |-> label, elapsed |-> elapsed]

\* The cooldown gate around the composition: a label is returned only when
\* the cooldown has elapsed, and returning one restarts the cooldown.
EngineGate(d, L, R, F, t) ==
    LET elapsed == (t - d.last_gesture_time) > gesture_cooldown
        label == IF elapsed THEN ComposeLabel(L, R, F) ELSE Absent
    IN  [d |-> IF label # Absent THEN [d EXCEPT !.last_gesture_time = t] ELSE d,
         label |-> label, elapsed |-> elapsed]

process_frame_extended(d, frame, t) ==
    LET h == IF Len(frame.hands) > 0
             THEN HandsLoop(d, frame.hands, 1, [left |-> Absent, right |-> Absent], t)
             ELSE [d |-> d, left |-> Absent, right |-> Absent]
        f == FaceChain(h.d, frame, t)
        g == EngineGate(f.d, h.left, h.right, f.g, t)
    IN  [d |-> g.d, left |-> h.left, right |-> h.right, face |-> f.g,
         label |-> g.label, elapsed |-> g.elapsed]

\* Baseline profile: at most one hand is tracked, and the rules run only
\* when a hand is visible and the cooldown has elapsed.
process_frame_baseline(d, frame, t) ==
    LET elapsed == (t - d.last_gesture_time) > gesture_cooldown
        none == [d |-> d, left |-> Absent, right |-> Absent, face |-> Absent,
                 label |-> Absent, elapsed |-> elapsed]
    IN  IF Len(frame.hands) > 0 /\ elapsed
        THEN LET lm == frame.hands[1].lm
                 w == detect_wave_gesture(d, lm) IN
             IF w.fired
             THEN [none EXCEPT !.d = [w.d EXCEPT !.last_gesture_time = t], !.label = "wave"]
             ELSE LET p == detect_palm_up_gesture(w.d, lm, t) IN
                  IF p.fired
                  THEN [none EXCEPT !.d = [p.d EXCEPT !.last_gesture_time = t],
                                    !.label = "palm_up"]
                  ELSE [none EXCEPT !.d = p.d]
        ELSE none

-----------------------------------------------------------------------------
(* The detector instance after __init__, and the inert values of the       *)
(* variables a specification does not use.                                 *)

DetInit ==
    [wave_history |-> <<>>,
     palm_up_start_time |-> None,
     thumbs_up_start_time |-> None,
     peace_sign_start_time |-> None,
     fist_start_time |-> None,
     face_detected_start_time |-> None,
     smile_start_time |-> None,
     wink_start_time |-> None,
     eyebrows_raised_start_time |-> None,
     last_gesture_time |-> 0,
     left_eye_history |-> <<>>,
     right_eye_history |-> <<>>]

Profiles == {"baseline", "extended"}

\* What the last operation saw and did
ObsInit ==
    [op |-> "init", cond |-> FALSE, fired |-> FALSE, elapsed |-> FALSE,
     left |-> Absent, right |-> Absent, face |-> Absent, label |-> Absent,
     wasRunning |-> FALSE, opened |-> FALSE, pre |-> <<>>, emitted |-> <<>>,
     exc |-> FALSE, dispatched |-> FALSE, prevDispatch |-> None,
     who |-> 0, outcome |-> <<>>, ret |-> <<>>]

DwellGestures ==
    {"palm_up", "thumbs_up", "peace_sign", "fist",
     "face_detected", "wink", "smile", "eyebrows_raised"}

HandDwellGestures == {"palm_up", "thumbs_up", "peace_sign", "fist"}

\* The dwell time of each dwell-timed gesture
DwellOf(g) ==
    CASE g = "palm_up" -> PalmUpDwell
      [] g = "thumbs_up" -> ThumbsUpDwell
      [] g = "peace_sign" -> PeaceSignDwell
      [] g = "fist" -> FistDwell
      [] g = "face_detected" -> FaceDetectedDwell
      [] g = "wink" -> WinkDwell
      [] g = "smile" -> SmileDwell
      [] g = "eyebrows_raised" -> EyebrowsDwell

RoleInit == [g |-> Absent, since |-> None, fires |-> 0]

TrackInit ==
    [holdSince |-> None, holdFires |-> 0, broken |-> FALSE,
     fed |-> <<>>, waveFires |-> 0,
     labelTime |-> None, prevLabelTime |-> None,
     poseSince |-> [g \in DwellGestures |-> None], fedHands |-> <<>>,
     left |-> RoleInit, right |-> RoleInit]

HistInit ==
    [badRead |-> FALSE, earlyRelease |-> FALSE, lastDispatch |-> None, cases |-> {},
     lastHandled |-> None, prevHandled |-> None,
     sends |-> 0, clears |-> 0, submitted |-> {}, popups |-> {}, saved |-> <<>>]

\* The AIAssistant after __init__, with the remote service holding no
\* conversation thread
AiInit ==
    [thread_id |-> None, conversation_history |-> <<>>, remote_threads |-> 0,
     file |-> [exists |-> FALSE, text |-> <<>>], run |-> "none"]

WorkerIds == {1, 2}

WorkerFree ==
    [pc |-> "free", kind |-> "none", gesture |-> "", content |-> "",
     shot |-> [type |-> "NoneType"], tid |-> None, ret |-> [type |-> "NoneType"],
     mode |-> "", quality |-> 0, status |-> ""]

FreeWorkers == {w \in WorkerIds : workers[w].pc = "free"}

\* The thread a new call runs on
NextWorker == CHOOSE w \in FreeWorkers : \A v \in FreeWorkers : w <= v

\* The exchanges in flight: the background threads between their start and
\* the end of _capture_screenshot_async
InFlight ==
    {w \in WorkerIds : workers[w].kind = "gesture"
                       /\ workers[w].pc \notin {"free", "queued"}}

\* Python values that are a string or None
PyNone == [type |-> "NoneType"]

PyStr(s) == [type |-> "str", v |-> s]

PyFloat(x) == [type |-> "float", v |-> x]

\* The settings document, reduced to the tunables the dialog edits and the
\* orchestrator reads: screenshot.mode, screenshot.quality, ui.enable_tts
get_default_config == [mode |-> "fullscreen", quality |-> 90, enable_tts |-> FALSE]

\* self.config = {} of ConfigManager.__init__, before load_config
EmptyConfig == [mode |-> "", quality |-> 0, enable_tts |-> FALSE]

\* json.dump of a settings document: the text of the settings file
ConfigDump(doc) ==
    [kind |-> "json",
     mode |-> [json |-> "string", v |-> doc.mode],
     quality |-> [json |-> "number", v |-> doc.quality],
     enable_tts |-> [json |-> IF doc.enable_tts THEN "true" ELSE "false"]]

\* A settings file whose text is not JSON
GarbageText ==
    [kind |-> "garbage", mode |-> [json |-> "null"], quality |-> [json |-> "null"],
     enable_tts |-> [json |-> "null"]]

\* json.load of the text of the settings file: the document, or the
\* JSONDecodeError it raises
ConfigParse(text) ==
    IF text.kind = "json"
    THEN [raise |-> FALSE,
          doc |-> [mode |-> text.mode.v, quality |-> text.quality.v,
                   enable_tts |-> text.enable_tts.json = "true"]]
    ELSE [raise |-> TRUE, doc |-> EmptyConfig]

\* The values of a settings document as nested mappings: a mapping from
\* keys to values, a number, or a string
MapOf(items) == [kind |-> "map", items |-> items]

IntOf(n) == [kind |-> "int", n |-> n]

StrOf(str) == [kind |-> "str", s |-> str]

\* A settings document for the dotted-path interface:
\* {"screenshot": {"mode": "fullscreen"}}
PathDocument ==
    MapOf([k \in {"screenshot"} |-> MapOf([j \in {"mode"} |-> StrOf("fullscreen")])])

\* None, the default of get_config_value
NoneOf == [kind |-> "none"]

\* os.environ and the .env file: the text of each variable, "" standing
\* for a variable that is not set
EnvNames ==
    {"OPENAI_API_KEY", "ASSISTANT_ID", "SCREENSHOT_DIR", "GESTURE_SENSITIVITY",
     "CAPTURE_MODE"}

\* float(text), in hundredths
ParseFloat(text) ==
    CASE text = "0.8" -> 80
      [] text = "0.5" -> 50

\* str(x) of a float in hundredths
FloatStr(x) ==
    CASE x = 80 -> "0.8"
      [] x = 50 -> "0.5"

\* os.getenv(name, default)
getenv(environ, name, default) == IF environ[name] = "" THEN default ELSE environ[name]

\* ConfigManager.load_env_vars: the dictionary built from the environment
load_env_vars(environ) ==
    [OPENAI_API_KEY |-> PyStr(getenv(environ, "OPENAI_API_KEY", "")),
     ASSISTANT_ID |-> PyStr(getenv(environ, "ASSISTANT_ID", "")),
     SCREENSHOT_DIR |-> PyStr(getenv(environ, "SCREENSHOT_DIR", "./screenshots")),
     GESTURE_SENSITIVITY |->
         PyFloat(ParseFloat(getenv(environ, "GESTURE_SENSITIVITY", "0.8"))),
     CAPTURE_MODE |-> PyStr(getenv(environ, "CAPTURE_MODE", "fullscreen"))]

\* An environment in which none of the variables is set
NoEnviron == [name \in EnvNames |-> ""]

\* The settings file
NoFile == [exists |-> FALSE, text |-> GarbageText]

FileOf(text) == [exists |-> TRUE, text |-> text]

\* The settings before the application object is constructed, over a
\* settings file f
CfgNew(f) ==
    [phase |-> "new", file |-> f, config |-> EmptyConfig, window |-> EmptyConfig,
     exit_code |-> 0, edited |-> EmptyConfig, before |-> f,
     document |-> PathDocument, environ |-> NoEnviron,
     env_vars |-> load_env_vars(NoEnviron), snapshot |-> NoFile,
     dir |-> {},
     screen |-> [window_info |-> TRUE, window_image |-> "image",
                 full_image |-> "image"],
     exported |-> [own |-> FALSE, document |-> PathDocument,
                   env_vars |-> load_env_vars(NoEnviron)]]

\* The settings of a started application whose settings file held the
\* defaults
CfgInit ==
    [CfgNew(FileOf(ConfigDump(get_default_config))) EXCEPT
        !.phase = "running", !.config = get_default_config,
        !.window = get_default_config]

\* The orchestrator after construction: no camera, the loop thread never
\* started; connected tells whether a window is attached to its signals.
OrchInit(connected) ==
    /\ running = FALSE
    /\ camera = "None"
    /\ pcLoop = "unstarted"
    /\ loc = [last_gesture_time |-> 0]
    /\ pcGui = "idle"
    /\ errq = <<>>
    /\ gui = [connected |-> connected, start_btn |-> "Start Detection"]
    /\ hist = HistInit
    /\ ai = AiInit
    /\ workers = [w \in WorkerIds |-> WorkerFree]
    /\ cfg = CfgInit

OrchIdle == OrchInit(FALSE)

-----------------------------------------------------------------------------
(* Specification SpecPalm: detect_palm_up_gesture called on one hand in    *)
(* every frame, frames 0.1 s, 0.2 s or 0.5 s apart.                        *)

PalmSteps == {1, 2, 5}

PalmInputs == {PalmPose(40), RelaxedPose(40), FistPose(40)}

InitPalm ==
    /\ now = Epoch
    /\ profile \in Profiles
    /\ det = DetInit
    /\ obs = ObsInit
    /\ track = TrackInit
    /\ feed = {}
    /\ OrchIdle

CallPalmUp ==
    \E dt \in PalmSteps, lm \in PalmInputs :
        LET t == now + dt
            r == detect_palm_up_gesture(det, lm, t)
            c == PalmUpCond(lm)
        IN  /\ t <= Epoch + MaxTime
            /\ now' = t
            /\ det' = r.d
            /\ obs' = [ObsInit EXCEPT !.op = "palm", !.cond = c, !.fired = r.fired]
            /\ track' = [track EXCEPT
                  !.holdSince = IF c THEN (IF @ = None THEN t ELSE @) ELSE None,
                  !.holdFires = IF c THEN @ + (IF r.fired THEN 1 ELSE 0) ELSE 0,
                  !.broken = @ \/ (~c /\ track.holdSince # None)]
            /\ UNCHANGED <<profile, feed, orchVars>>

NextPalm == CallPalmUp

SpecPalm == InitPalm /\ [][NextPalm]_vars

\* How long the pose has been held without a break, at the last call
HeldFor == IF track.holdSince = None THEN -1 ELSE now - track.holdSince

\* C2: palm-up dwell, one hand in every frame.  A pose held for 1.5 s or less
\* (so for 1.4 s) has not fired; held for more than 1.5 s and at most 3.0 s
\* (so for 1.6 s) it has fired exactly once; the timer is unset by the firing
\* call and by every call whose pose condition is false, so that a firing
\* always has more than 1.5 s of unbroken holding behind it.
C2_PalmUpDwell ==
    obs.op = "palm" =>
        /\ obs.fired => (HeldFor > PalmUpDwell /\ det.palm_up_start_time = None)
        /\ (HeldFor >= 0 /\ HeldFor <= PalmUpDwell) => track.holdFires = 0
        /\ (HeldFor > PalmUpDwell /\ HeldFor <= 2 * PalmUpDwell) => track.holdFires = 1
        /\ ~obs.cond => det.palm_up_start_time = None

\* C2 witness: after a broken hold, the pose was held for 1.6 s and fired
C2_Witness ==
    /\ obs.op = "palm"
    /\ obs.fired
    /\ track.broken
    /\ HeldFor = PalmUpDwell + 1
    /\ track.holdFires = 1

-----------------------------------------------------------------------------
(* Specification SpecWave: detect_wave_gesture called on one hand in every *)
(* frame, starting from an empty history.                                  *)

WristXs == {30, 40, 50}

WaveInputs == {PalmPose(x) : x \in WristXs} \cup {FistPose(40)}

WaveSamples == <<30, 40, 50, 40, 30, 40, 50, 40, 30, 40>>

InitWave ==
    /\ now = Epoch
    /\ profile = "extended"
    /\ det = DetInit
    /\ obs = ObsInit
    /\ track = TrackInit
    /\ feed = {}
    /\ OrchIdle

CallWave ==
    \E lm \in WaveInputs :
        LET r == detect_wave_gesture(det, lm)
            c == FingersUp(lm) >= WaveFingersMin
        IN  /\ c => Len(track.fed) < MaxSamples
            /\ det' = r.d
            /\ obs' = [ObsInit EXCEPT !.op = "wave", !.cond = c, !.fired = r.fired]
            /\ track' = [track EXCEPT
                  !.fed = IF c THEN Append(@, lm[0].x) ELSE <<>>,
                  !.waveFires = IF c THEN @ + (IF r.fired THEN 1 ELSE 0) ELSE 0]
            /\ UNCHANGED <<now, profile, feed, orchVars>>

NextWave == CallWave

SpecWave == InitWave /\ [][NextWave]_vars

\* C6: fed the ten wrist samples 0.3 0.4 0.5 0.4 0.3 0.4 0.5 0.4 0.3 0.4 with
\* at least 3 fingers up, detect_wave_gesture fires exactly once (no firing
\* within the first 7 samples, one by the end); the history is empty right
\* after a firing call and after a call with fewer than 3 fingers up.
C6_Wave ==
    obs.op = "wave" =>
        /\ \A k \in 1..Len(WaveSamples) :
              track.fed = SubSeq(WaveSamples, 1, k) =>
                  track.waveFires = (IF k >= WaveMinSamples THEN 1 ELSE 0)
        /\ obs.fired => det.wave_history = <<>>
        /\ ~obs.cond => det.wave_history = <<>>

\* C6 witness: all ten samples were fed and exactly one firing happened
C6_Witness ==
    /\ obs.op = "wave"
    /\ track.fed = WaveSamples
    /\ track.waveFires = 1

-----------------------------------------------------------------------------
(* Specification SpecEngine: one detector of either profile is fed frames. *)

FrameSteps == {10}

NoFace == [mesh |-> <<>>, detections |-> FALSE]

FaceOnly(f) == [mesh |-> <<f>>, detections |-> TRUE]

\* One hand, which the hand model labels "Right" (the user's left hand)
OneHand(a) == <<[label |-> "Right", lm |-> a]>>

TwoHands(a, b) == <<[label |-> "Right", lm |-> a], [label |-> "Left", lm |-> b]>>

MkFrame(h, f) == [hands |-> h, mesh |-> f.mesh, detections |-> f.detections]

\* A scene is the set of frames the camera can deliver during one run
SceneOneHand ==
    {MkFrame(<<>>, NoFace)}
    \cup {MkFrame(OneHand(a), NoFace) :
            a \in {PalmPose(40), FistPose(40), ThumbsUpPose(40), RelaxedPose(40)}}

SceneTwoHands ==
    {MkFrame(<<>>, NoFace),
     MkFrame(TwoHands(FistPose(40), PeacePose(40)), NoFace),
     MkFrame(TwoHands(FistPose(40), FistPose(40)), NoFace),
     MkFrame(TwoHands(PalmPose(30), PalmPose(50)), NoFace),
     MkFrame(TwoHands(PalmPose(30), PeacePose(40)), NoFace)}

SceneFace ==
    {MkFrame(<<>>, NoFace),
     MkFrame(<<>>, [mesh |-> <<>>, detections |-> TRUE]),
     MkFrame(<<>>, FaceOnly(NeutralFace)),
     MkFrame(<<>>, FaceOnly(ClosedEyesFace)),
     MkFrame(<<>>, FaceOnly(WinkFace)),
     MkFrame(<<>>, FaceOnly(EyebrowsFace)),
     MkFrame(OneHand(FistPose(40)), FaceOnly(SmileFace))}

ExtendedScenes == {SceneOneHand, SceneTwoHands, SceneFace}

\* The hands a profile looks at: the baseline model tracks one hand
SeenHands(frame) ==
    IF profile = "baseline" /\ Len(frame.hands) > 1
    THEN SubSeq(frame.hands, 1, 1) ELSE frame.hands

\* Whether the pose of dwell gesture g is observed in the frame
PoseCond(g, lm) ==
    CASE g = "palm_up" -> PalmUpCond(lm)
      [] g = "thumbs_up" -> ThumbsUpCond(lm)
      [] g = "peace_sign" -> PeaceSignCond(lm)
      [] g = "fist" -> FistCond(lm)

PoseObserved(g, frame) ==
    CASE g \in HandDwellGestures ->
            \E i \in 1..Len(SeenHands(frame)) : PoseCond(g, frame.hands[i].lm)
      [] g = "face_detected" -> frame.detections
      [] g = "wink" -> Len(frame.mesh) > 0 /\ WinkCond(frame.mesh[1])
      [] g = "smile" -> Len(frame.mesh) > 0 /\ SmileCond(frame.mesh[1])
      [] g = "eyebrows_raised" -> Len(frame.mesh) > 0 /\ EyebrowsCond(frame.mesh[1])

\* The dwell gesture whose pose a hand shows (the poses exclude each other)
PoseGesture(lm) ==
    IF \E g \in HandDwellGestures : PoseCond(g, lm)
    THEN CHOOSE g \in HandDwellGestures : PoseCond(g, lm)
    ELSE Absent

\* The hand of a role in a frame showing both hands, one per role
RoleHand(frame, role) ==
    LET want == IF role = "left" THEN "Right" ELSE "Left"
        i == CHOOSE k \in 1..2 : frame.hands[k].label = want
    IN  frame.hands[i].lm

BothHands(frame) ==
    /\ Len(frame.hands) = 2
    /\ {frame.hands[1].label, frame.hands[2].label} = {"Left", "Right"}

TrackRole(old, frame, role, firedG, t) ==
    IF ~BothHands(frame) THEN RoleInit
    ELSE LET g == PoseGesture(RoleHand(frame, role))
         IN  IF g = Absent THEN RoleInit
             ELSE IF g = old.g
                  THEN [old EXCEPT !.fires = IF firedG = g THEN 1 ELSE @]
                  ELSE [g |-> g, since |-> t, fires |-> 0]

TrackFrame(frame, r, t) ==
    [track EXCEPT
        !.prevLabelTime = IF r.label # Absent THEN track.labelTime ELSE @,
        !.labelTime = IF r.label # Absent THEN t ELSE @,
        !.poseSince = [g \in DwellGestures |->
                          IF PoseObserved(g, frame)
                          THEN (IF @[g] = None THEN t ELSE @[g])
                          ELSE None],
        !.left = TrackRole(@, frame, "left", r.left, t),
        !.right = TrackRole(@, frame, "right", r.right, t)]

InitEngine ==
    /\ now = Epoch
    /\ \/ profile = "baseline" /\ feed = SceneOneHand
       \/ profile = "extended" /\ feed \in ExtendedScenes
    /\ det = DetInit
    /\ obs = ObsInit
    /\ track = TrackInit
    /\ OrchIdle

FrameOf(frame, r, t) ==
    /\ t <= Epoch + MaxEngineTime
    /\ now' = t
    /\ det' = r.d
    /\ obs' = [ObsInit EXCEPT !.op = "frame", !.elapsed = r.elapsed, !.left = r.left,
                              !.right = r.right, !.face = r.face, !.label = r.label]
    /\ track' = TrackFrame(frame, r, t)
    /\ UNCHANGED <<profile, feed, orchVars>>

FrameBaseline ==
    /\ profile = "baseline"
    /\ \E dt \in FrameSteps, frame \in feed :
          FrameOf(frame, process_frame_baseline(det, frame, now + dt), now + dt)

FrameExtended ==
    /\ profile = "extended"
    /\ \E dt \in FrameSteps, frame \in feed :
          FrameOf(frame, process_frame_extended(det, frame, now + dt), now + dt)

NextEngine == FrameBaseline \/ FrameExtended

SpecEngine == InitEngine /\ [][NextEngine]_vars

\* The dwell gestures that fired in the last frame
FiredIn(g) == g \in {obs.left, obs.right, obs.face, obs.label}

TimerOf(g) ==
    CASE g = "palm_up" -> det.palm_up_start_time
      [] g = "thumbs_up" -> det.thumbs_up_start_time
      [] g = "peace_sign" -> det.peace_sign_start_time
      [] g = "fist" -> det.fist_start_time
      [] g = "face_detected" -> det.face_detected_start_time
      [] g = "wink" -> det.wink_start_time
      [] g = "smile" -> det.smile_start_time
      [] g = "eyebrows_raised" -> det.eyebrows_raised_start_time

\* C3: dwell continuity.  A dwell-timed gesture fires in a frame only if its
\* pose was observed in every frame processed during the preceding dwell
\* period, and a frame in which the pose is not observed (no hand, no face,
\* a frame inside the engine cooldown) leaves its timer unset.
C3_DwellContinuity ==
    obs.op = "frame" =>
        \A g \in DwellGestures :
            /\ FiredIn(g) =>
                  (track.poseSince[g] # None /\ now - track.poseSince[g] > DwellOf(g))
            /\ track.poseSince[g] = None => TimerOf(g) = None

\* C4: two hands tracked independently.  With both hands visible, a hand that
\* has held the pose of a dwell gesture for longer than its dwell time has
\* fired that gesture, whatever the other hand shows.
C4_TwoHandsIndependent ==
    (obs.op = "frame" /\ profile = "extended") =>
        \A h \in {track.left, track.right} :
            (h.g # Absent /\ now - h.since > DwellOf(h.g)) => h.fires >= 1

\* C7: engine cooldown.  A frame returns a label only when more than 2.0 s
\* have passed since the frame that last returned one, and returning a label
\* sets the cooldown clock to the time of this frame.
C7_EngineCooldown ==
    (obs.op = "frame" /\ obs.label # Absent) =>
        /\ obs.elapsed
        /\ track.prevLabelTime # None => now - track.prevLabelTime > gesture_cooldown
        /\ det.last_gesture_time = now
        /\ track.labelTime = now

\* C7 witness: a detector returns its second label
C7_Witness ==
    /\ obs.op = "frame"
    /\ obs.label # Absent
    /\ track.prevLabelTime # None

-----------------------------------------------------------------------------
(* Specification SpecCompose: the role assignment and the label            *)
(* composition of the extended process_frame, applied to what the rules    *)
(* fired for each visible hand and for the face.                           *)

ComposeSteps == {10, 30}

HandOutcomes == {Absent, "wave", "fist", "peace_sign"}

FaceOutcomes == {Absent, "smile", "blink"}

\* What the rules fired for the hands of one frame, in processing order
FiredHands ==
    {<<>>}
    \cup {<<[label |-> l, g |-> a]>> : l \in {"Left", "Right"}, a \in HandOutcomes}
    \cup {<<[label |-> l, g |-> a], [label |-> IF l = "Left" THEN "Right" ELSE "Left", g |-> b]>> :
            l \in {"Left", "Right"}, a \in HandOutcomes, b \in HandOutcomes}

RECURSIVE AssignAll(_, _, _)
AssignAll(fired, i, acc) ==
    IF i > Len(fired) THEN acc
    ELSE AssignAll(fired, i + 1, AssignRole(acc, fired[i].label, fired[i].g))

InitCompose ==
    /\ now = Epoch
    /\ profile = "extended"
    /\ det = DetInit
    /\ obs = ObsInit
    /\ track = TrackInit
    /\ feed = {}
    /\ OrchIdle

ComposeCall ==
    \E dt \in ComposeSteps, fired \in FiredHands, F \in FaceOutcomes :
        LET t == now + dt
            acc == AssignAll(fired, 1, [left |-> Absent, right |-> Absent])
            r == EngineGate(det, acc.left, acc.right, F, t)
        IN  /\ t <= Epoch + MaxTime
            /\ now' = t
            /\ det' = r.d
            /\ obs' = [ObsInit EXCEPT !.op = "compose", !.elapsed = r.elapsed,
                          !.left = acc.left, !.right = acc.right, !.face = F,
                          !.label = r.label]
            /\ track' = [track EXCEPT !.fedHands = fired]
            /\ UNCHANGED <<profile, feed, orchVars>>

NextCompose == ComposeCall

SpecCompose == InitCompose /\ [][NextCompose]_vars

\* What the hand with the given model label fired (Absent if none did)
FiredBy(modelLabel) ==
    IF \E i \in 1..Len(track.fedHands) :
          track.fedHands[i].label = modelLabel /\ track.fedHands[i].g # Absent
    THEN LET i == CHOOSE k \in 1..Len(track.fedHands) :
                     track.fedHands[k].label = modelLabel /\ track.fedHands[k].g # Absent
         IN  track.fedHands[i].g
    ELSE Absent

RECURSIVE JoinPlus(_)
JoinPlus(parts) ==
    IF Len(parts) = 0 THEN Absent
    ELSE IF Len(parts) = 1 THEN parts[1]
    ELSE parts[1] \o "+" \o JoinPlus(Tail(parts))

NonEmpty(p) == p # Absent

\* The parts left, right, face that are present, in this order
LabelParts ==
    SelectSeq(<<IF FiredBy("Right") # Absent THEN "left_" \o FiredBy("Right") ELSE Absent,
                IF FiredBy("Left") # Absent THEN "right_" \o FiredBy("Left") ELSE Absent,
                obs.face>>, NonEmpty)

\* C5: composite label.  When the cooldown has elapsed the label is the
\* "+"-join of the parts that fired, in the order left, right, face, the left
\* part being what the hand labelled "Right" by the model fired; e.g.
\* left_fist+right_peace_sign+smile and left_wave+blink.
C5_CompositeLabel ==
    obs.op = "compose" =>
        /\ obs.elapsed => obs.label = JoinPlus(LabelParts)
        /\ ~obs.elapsed => obs.label = Absent
        /\ (obs.elapsed /\ FiredBy("Right") = "fist" /\ FiredBy("Left") = "peace_sign"
              /\ obs.face = "smile") => obs.label = "left_fist+right_peace_sign+smile"
        /\ (obs.elapsed /\ FiredBy("Right") = "wave" /\ FiredBy("Left") = Absent
              /\ obs.face = "blink") => obs.label = "left_wave+blink"

\* C5 witness: both hands and the face fired in one frame after the cooldown
C5_Witness ==
    /\ obs.op = "compose"
    /\ obs.label = "left_fist+right_peace_sign+smile"
    /\ track.fedHands[1].label = "Left"

-----------------------------------------------------------------------------
(* The orchestrator GestureAgentCore and the application around it: the    *)
(* GUI thread (start_detection, stop_detection, the start button, the     *)
(* error slot) and the loop thread (run).  The steps of the two threads    *)
(* interleave; a signal emitted by the loop thread is queued to the GUI    *)
(* thread, one emitted by the GUI thread calls its slot at once.           *)

MaxErrors == 2

TickSteps == {5}

handle_camera_error == "Camera unavailable. Please check camera permissions and connection."

handle_gesture_detection_error == "Gesture detection temporarily unavailable."

ThreadLive == pcLoop \in {"entry", "test", "read", "process"}

ThreadFinished == ~ThreadLive

CoreState == <<running, camera, pcLoop>>

\* Faulty variant of start_detection: does not test the running flag
start_detection_unguarded(opened) ==
    IF opened
    THEN [running |-> TRUE, camera |-> "open", pcLoop |-> "entry", emitted |-> <<>>]
    ELSE [running |-> running, camera |-> "unopened", pcLoop |-> pcLoop,
          emitted |-> <<handle_camera_error, "Failed to start camera">>]

\* start_detection with _initialize_camera: opened tells whether the device
\* opens.  A VideoCapture that did not open stays in self.camera.
start_detection(opened) ==
    IF running
    THEN [running |-> running, camera |-> camera, pcLoop |-> pcLoop, emitted |-> <<>>]
    ELSE IF opened
    THEN [running |-> TRUE, camera |-> "open", pcLoop |-> "entry", emitted |-> <<>>]
    ELSE [running |-> FALSE, camera |-> "unopened", pcLoop |-> pcLoop,
          emitted |-> <<handle_camera_error, "Failed to start camera">>]

\* start_detection called on the core
StartDetection ==
    /\ pcGui = "idle"
    /\ \E opened \in BOOLEAN :
          LET r == start_detection(opened) IN
          /\ running' = r.running
          /\ camera' = r.camera
          /\ pcLoop' = r.pcLoop
          /\ obs' = [ObsInit EXCEPT !.op = "start_detection", !.wasRunning = running,
                        !.opened = opened, !.pre = CoreState, !.emitted = r.emitted]
          /\ hist' = [hist EXCEPT !.cases = @ \cup
                        (IF running THEN {"start_running"}
                         ELSE IF opened THEN {} ELSE {"start_failed"})]
    /\ UNCHANGED <<now, detVars, svcVars, loc, pcGui, errq, gui>>

\* stop_detection called on the core, up to its wait for the loop thread
StopDetection ==
    /\ pcGui = "idle"
    /\ running' = FALSE
    /\ pcGui' = IF running THEN "stop_wait" ELSE "idle"
    /\ obs' = [ObsInit EXCEPT !.op = "stop_detection", !.wasRunning = running,
                  !.pre = CoreState]
    /\ hist' = [hist EXCEPT !.cases = @ \cup (IF running THEN {} ELSE {"stop_idle"})]
    /\ UNCHANGED <<now, detVars, svcVars, camera, pcLoop, loc, errq, gui>>

\* Faulty variant of StopWait: releases the camera without waiting for the loop thread
StopReleaseEarly ==
    /\ pcGui \in {"stop_wait", "toggle_wait", "on_error_wait"}
    /\ camera' = "None"
    /\ gui' = IF pcGui = "stop_wait" THEN gui
              ELSE [gui EXCEPT !.start_btn = "Start Detection"]
    /\ pcGui' = "idle"
    /\ obs' = [ObsInit EXCEPT !.op = pcGui, !.pre = CoreState]
    /\ hist' = [hist EXCEPT !.earlyRelease = @ \/ running \/ ThreadLive]
    /\ UNCHANGED <<now, detVars, svcVars, running, pcLoop, loc, errq>>

\* The rest of stop_detection: wait() returns once the loop thread has
\* finished, then the camera is released and forgotten; _toggle_detection
\* and _on_error then set the button text.
StopWait ==
    /\ pcGui \in {"stop_wait", "toggle_wait", "on_error_wait"}
    /\ ThreadFinished
    /\ camera' = "None"
    /\ gui' = IF pcGui = "stop_wait" THEN gui
              ELSE [gui EXCEPT !.start_btn = "Start Detection"]
    /\ pcGui' = "idle"
    /\ obs' = [ObsInit EXCEPT !.op = pcGui, !.pre = CoreState]
    /\ hist' = [hist EXCEPT !.earlyRelease = @ \/ running \/ ThreadLive]
    /\ UNCHANGED <<now, detVars, svcVars, running, pcLoop, loc, errq>>

\* MainWindow.toggle_detection, the first slot of the button
toggle_detection(g) ==
    [g EXCEPT !.start_btn = IF @ = "Start Detection" THEN "Stop Detection"
                            ELSE "Start Detection"]

\* A click on the start button: MainWindow.toggle_detection, then
\* GestureAgentApp._toggle_detection
Toggle ==
    /\ pcGui = "idle"
    /\ IF running
       THEN /\ running' = FALSE
            /\ pcGui' = "toggle_wait"
            /\ gui' = toggle_detection(gui)
            /\ obs' = [ObsInit EXCEPT !.op = "toggle", !.wasRunning = TRUE,
                          !.pre = CoreState]
            /\ UNCHANGED <<camera, pcLoop>>
       ELSE \E opened \in BOOLEAN :
               LET r == start_detection(opened) IN
               /\ running' = r.running
               /\ camera' = r.camera
               /\ pcLoop' = r.pcLoop
               /\ gui' = [toggle_detection(gui) EXCEPT !.start_btn = "Stop Detection"]
               /\ obs' = [ObsInit EXCEPT !.op = "toggle", !.opened = opened,
                             !.pre = CoreState, !.emitted = r.emitted]
               /\ UNCHANGED pcGui
    /\ UNCHANGED <<now, detVars, svcVars, loc, errq, hist>>

\* Faulty variant of OnError: shows the message but does not stop detection
OnErrorNoStop ==
    /\ pcGui = "idle"
    /\ errq # <<>>
    /\ errq' = Tail(errq)
    /\ obs' = [ObsInit EXCEPT !.op = "on_error", !.wasRunning = running,
                  !.pre = CoreState]
    /\ UNCHANGED <<now, detVars, svcVars, running, camera, pcLoop, loc, pcGui, gui, hist>>

\* _on_error run by the GUI thread for a message the loop thread emitted
OnError ==
    /\ pcGui = "idle"
    /\ errq # <<>>
    /\ errq' = Tail(errq)
    /\ running' = FALSE
    /\ pcGui' = IF running THEN "on_error_wait" ELSE "idle"
    /\ obs' = [ObsInit EXCEPT !.op = "on_error", !.wasRunning = running,
                  !.pre = CoreState]
    /\ UNCHANGED <<now, detVars, svcVars, camera, pcLoop, loc, gui, hist>>

\* What one pass of the loop body meets: the rules of the engine fire for
\* the left hand, the right hand or the face, or an exception is raised.
LoopOutcomes ==
    {[raise |-> FALSE, left |-> Absent, right |-> Absent, face |-> Absent],
     [raise |-> FALSE, left |-> "wave", right |-> Absent, face |-> Absent],
     [raise |-> FALSE, left |-> Absent, right |-> Absent, face |-> "smile"],
     [raise |-> TRUE, left |-> Absent, right |-> Absent, face |-> Absent]}

\* error_occurred.emit from the loop thread
EmitQueued(q, msg) == IF gui.connected THEN Append(q, msg) ELSE q

\* Faulty variant of OuterGate: dispatches every label
OuterNoCooldown(label, last, t) == label # Absent

\* Faulty variant of OuterGate: a label is dispatched as soon as the
\* cooldown has elapsed, the instant it elapses included
OuterGateAtLeast(label, last, t) ==
    label # Absent /\ (t - last) >= outer_gesture_cooldown

\* The condition of run under which a returned label is dispatched
OuterGate(label, last, t) ==
    label # Absent /\ (t - last) > outer_gesture_cooldown

\* The loop thread enters run: its locals are initialised
LoopEnter ==
    /\ pcLoop = "entry"
    /\ pcLoop' = "test"
    /\ loc' = [last_gesture_time |-> 0]
    /\ hist' = [hist EXCEPT !.lastDispatch = None]
    /\ obs' = [ObsInit EXCEPT !.op = "enter"]
    /\ UNCHANGED <<now, detVars, svcVars, running, camera, pcGui, errq, gui>>

\* while self.running
LoopTest ==
    /\ pcLoop = "test"
    /\ pcLoop' = IF running THEN "read" ELSE "done"
    /\ obs' = [ObsInit EXCEPT !.op = "test", !.wasRunning = running]
    /\ UNCHANGED <<now, detVars, svcVars, running, camera, loc, pcGui, errq, gui, hist>>

\* Faulty variant of LoopRead: the exchange runs in the loop thread, which
\* reads the next frame only once no exchange is in flight
LoopReadAfterExchange ==
    /\ InFlight = {}
    /\ pcLoop = "read"
    /\ \E ret \in BOOLEAN :
          /\ pcLoop' = IF camera = "open" /\ ret THEN "process" ELSE "test"
          /\ obs' = [ObsInit EXCEPT !.op = "read", !.opened = camera = "open" /\ ret]
    /\ hist' = [hist EXCEPT !.badRead = @ \/ camera # "open"]
    /\ UNCHANGED <<now, detVars, svcVars, running, camera, loc, pcGui, errq, gui>>

\* self.camera.read(): a camera that is None raises, one that is not open
\* returns no frame, and without a frame the loop continues
LoopRead ==
    /\ pcLoop = "read"
    /\ camera = "None" => Len(errq) < MaxErrors
    /\ \E ret \in BOOLEAN :
          /\ pcLoop' = IF camera = "None" THEN "done"
                       ELSE IF camera = "open" /\ ret THEN "process" ELSE "test"
          /\ errq' = IF camera = "None"
                     THEN EmitQueued(errq, handle_gesture_detection_error) ELSE errq
          /\ obs' = [ObsInit EXCEPT !.op = "read", !.opened = camera = "open" /\ ret,
                        !.exc = camera = "None",
                        !.emitted = IF camera = "None"
                                    THEN <<handle_gesture_detection_error>> ELSE <<>>]
    /\ hist' = [hist EXCEPT !.badRead = @ \/ camera # "open"]
    /\ UNCHANGED <<now, detVars, svcVars, running, camera, loc, pcGui, gui>>

\* _handle_gesture: the background thread started for a dispatched label,
\* about to run _capture_screenshot_async
handle_gesture(gesture_type) ==
    [WorkerFree EXCEPT !.pc = "capture", !.kind = "gesture", !.gesture = gesture_type,
                       !.mode = cfg.config.mode, !.quality = cfg.config.quality]

\* The rest of the loop body: process_frame, the outer cooldown and the
\* dispatch (_handle_gesture), or the except branch, which publishes the
\* translated message and leaves the loop
LoopProcess ==
    /\ pcLoop = "process"
    /\ \E o \in LoopOutcomes :
          IF o.raise
          THEN /\ Len(errq) < MaxErrors
               /\ pcLoop' = "done"
               /\ errq' = EmitQueued(errq, handle_gesture_detection_error)
               /\ obs' = [ObsInit EXCEPT !.op = "loop", !.exc = TRUE,
                             !.wasRunning = running,
                             !.emitted = <<handle_gesture_detection_error>>,
                             !.prevDispatch = hist.lastDispatch]
               /\ UNCHANGED <<det, loc, hist, workers>>
          ELSE LET r == EngineGate(det, o.left, o.right, o.face, now)
                   dispatch == OuterGate(r.label, loc.last_gesture_time, now)
               IN  /\ pcLoop' = "test"
                   /\ det' = r.d
                   /\ loc' = IF dispatch THEN [loc EXCEPT !.last_gesture_time = now]
                             ELSE loc
                   /\ hist' = IF dispatch
                              THEN [hist EXCEPT !.lastDispatch = now,
                                                !.prevHandled = hist.lastHandled,
                                                !.lastHandled = now]
                              ELSE hist
                   /\ obs' = [ObsInit EXCEPT !.op = "loop", !.label = r.label,
                                 !.elapsed = r.elapsed, !.left = o.left,
                                 !.right = o.right, !.face = o.face,
                                 !.wasRunning = running,
                                 !.dispatched = dispatch,
                                 !.prevDispatch = hist.lastDispatch]
                   /\ dispatch => FreeWorkers # {}
                   /\ workers' = IF dispatch
                                  THEN [workers EXCEPT ![NextWorker] =
                                          handle_gesture(r.label)]
                                  ELSE workers
                   /\ UNCHANGED errq
    /\ UNCHANGED <<now, profile, track, feed, running, camera, pcGui, gui, ai, cfg>>

\* Time passes
Tick ==
    \E dt \in TickSteps :
        /\ now + dt <= Epoch + MaxTime
        /\ now' = now + dt
        /\ obs' = [ObsInit EXCEPT !.op = "tick"]
        /\ UNCHANGED <<detVars, orchVars>>

InitOrch(connected) ==
    /\ now = Epoch
    /\ profile = "extended"
    /\ det = DetInit
    /\ obs = ObsInit
    /\ track = TrackInit
    /\ feed = {}
    /\ OrchInit(connected)

\* Specification SpecCore: the core driven through start_detection and
\* stop_detection, no window attached
InitCore == InitOrch(FALSE)

NextCore ==
    \/ StartDetection
    \/ StopDetection
    \/ StopWait
    \/ LoopEnter
    \/ LoopTest
    \/ LoopRead
    \/ LoopProcess
    \/ Tick

SpecCore == InitCore /\ [][NextCore]_vars

\* Specification SpecApp: the application, driven by clicks on the start
\* button, with _on_error connected to error_occurred
InitApp == InitOrch(TRUE)

NextApp ==
    \/ Toggle
    \/ OnError
    \/ StopWait
    \/ LoopEnter
    \/ LoopTest
    \/ LoopRead
    \/ LoopProcess
    \/ Tick

SpecApp == InitApp /\ [][NextApp]_vars

\* Specification SpecAppFair: SpecApp where the GUI thread runs the slots
\* queued to it and finishes what it began, and the loop thread is scheduled
SpecAppFair ==
    /\ SpecApp
    /\ WF_vars(OnError)
    /\ WF_vars(StopWait)
    /\ WF_vars(LoopEnter)
    /\ WF_vars(LoopTest)
    /\ WF_vars(LoopRead)
    /\ WF_vars(LoopProcess)

\* C1: outer gesture cooldown of the camera loop.  Within one run of the
\* loop, a label returned less than 3.0 s after the last dispatch is not
\* dispatched, a label returned more than 3.0 s after it (or before any
\* dispatch of the run) is dispatched, and so no two dispatches of a run
\* are less than 3.0 s apart.
C1_OuterCooldown ==
    (obs.op = "loop" /\ obs.label # Absent) =>
        /\ obs.prevDispatch = None => obs.dispatched
        /\ (obs.prevDispatch # None /\ now - obs.prevDispatch < outer_gesture_cooldown)
              => ~obs.dispatched
        /\ (obs.prevDispatch # None /\ now - obs.prevDispatch > outer_gesture_cooldown)
              => obs.dispatched
        /\ (obs.dispatched /\ obs.prevDispatch # None)
              => now - obs.prevDispatch >= outer_gesture_cooldown
        /\ obs.dispatched => (hist.lastDispatch = now /\ loc.last_gesture_time = now)

\* C1 witness: the engine returns a label inside the outer cooldown of the
\* run's last dispatch, and the loop does not dispatch it
C1_Witness ==
    /\ obs.op = "loop"
    /\ obs.label # Absent
    /\ obs.prevDispatch # None
    /\ now - obs.prevDispatch < outer_gesture_cooldown
    /\ ~obs.dispatched

Idle ==
    /\ ~running
    /\ ThreadFinished
    /\ camera = "None"
    /\ pcGui = "idle"

\* C8: loop failure handling.  An exception in the running loop ends the
\* loop and publishes exactly one translated message; the loop thread is
\* started only by a click on the start button, never by the error path;
\* and the orchestrator eventually is idle (running flag false, loop thread
\* finished, camera released) with the button reading "Start Detection".
C8_LoopFailure ==
    /\ [](obs.exc => (pcLoop = "done"
                       /\ obs.emitted = <<handle_gesture_detection_error>>))
    /\ [][(ThreadFinished /\ ThreadLive') => (obs'.op = "toggle" /\ ~running)]_vars
    /\ (obs.exc ~> (Idle /\ gui.start_btn = "Start Detection"))

\* C8 witness: the error slot has stopped detection after a loop failure
C8_Witness ==
    /\ obs.op = "on_error_wait"
    /\ Idle
    /\ gui.start_btn = "Start Detection"

\* C9: start failure and the no-op calls.  start_detection in idle with a
\* camera that does not open publishes the translated camera error, leaves
\* the running flag false and starts no loop thread; start_detection while
\* running and stop_detection while idle change nothing.
C9_StartFailure ==
    /\ (obs.op = "start_detection" /\ ~obs.wasRunning /\ ~obs.opened) =>
          /\ ~running
          /\ pcLoop = obs.pre[3]
          /\ ThreadFinished
          /\ obs.emitted # <<>>
          /\ obs.emitted[1] = handle_camera_error
    /\ (obs.op = "start_detection" /\ obs.wasRunning) =>
          (CoreState = obs.pre /\ obs.emitted = <<>> /\ pcGui = "idle")
    /\ (obs.op = "stop_detection" /\ ~obs.wasRunning) =>
          (CoreState = obs.pre /\ pcGui = "idle")

\* C9 witness: a start fails in idle, after a start while running and a
\* stop while idle have been called
C9_Witness ==
    /\ obs.op = "start_detection"
    /\ ~obs.wasRunning
    /\ ~obs.opened
    /\ hist.cases = {"start_running", "start_failed", "stop_idle"}

\* C10: stop ordering.  stop_detection clears the running flag, waits for
\* the loop thread and only then releases the camera: while it waits the
\* flag is false and the camera still open, the camera is never released
\* while the loop thread is alive, and the loop never reads from a camera
\* that is released or absent.
C10_StopOrdering ==
    /\ ~hist.badRead
    /\ ~hist.earlyRelease
    /\ ThreadLive => camera = "open"
    /\ pcGui # "idle" => (~running /\ camera = "open")

\* C10 witness: a stop requested by a click has released the camera after
\* the loop thread finished
C10_Witness ==
    /\ obs.op = "toggle_wait"
    /\ camera = "None"
    /\ pcLoop = "done"
    /\ ~running

-----------------------------------------------------------------------------
(* The AI assistant (ai_assistant.py).  A call of send_message is run by   *)
(* a thread in steps, one per request to the remote service, so that       *)
(* calls interleave; the remote service answers as it pleases.             *)

MaxSends == 2

Contents == {"help me", "what is this"}

ScreenshotPaths == {PyNone, PyStr("screenshot_1.png")}

\* str(e) of the exceptions the client library raises
RawErrors == {"Connection error."}

\* The statuses a run can end in
EndStatuses == {"completed", "failed", "expired"}

\* What messages.list can hold after a completed run (newest first)
MessageLists ==
    {<<[role |-> "assistant", content |-> <<[type |-> "text", value |-> "Sure."]>>],
       [role |-> "user", content |-> <<[type |-> "text", value |-> "help me"]>>]>>,
     <<[role |-> "assistant",
        content |-> <<[type |-> "image_file", value |-> "file-1"],
                      [type |-> "text", value |-> "Look "],
                      [type |-> "text", value |-> "here."]>>]>>,
     <<[role |-> "user", content |-> <<[type |-> "text", value |-> "help me"]>>]>>}

\* for content_block in message.content: the text blocks concatenated
RECURSIVE ResponseText(_)
ResponseText(blocks) ==
    IF blocks = <<>> THEN ""
    ELSE (IF Head(blocks).type = "text" THEN Head(blocks).value ELSE "")
            \o ResponseText(Tail(blocks))

\* for message in messages.data: the index of the first assistant message,
\* 0 if there is none
FirstAssistant(data) ==
    IF \E i \in 1..Len(data) : data[i].role = "assistant"
    THEN CHOOSE i \in 1..Len(data) :
            /\ data[i].role = "assistant"
            /\ \A j \in 1..(i - 1) : data[j].role # "assistant"
    ELSE 0

\* Faulty variant of SendResult: a completed run extends the transcript
\* even when it holds no assistant message
SendResultAlwaysAppend(a, content, shot, status, data, t) ==
    IF status = "completed"
    THEN LET response_text ==
                 IF FirstAssistant(data) # 0
                 THEN ResponseText(data[FirstAssistant(data)].content) ELSE ""
         IN  [ai |-> [a EXCEPT !.conversation_history =
                         Append(@, [user |-> PyStr(content),
                                    assistant |-> PyStr(response_text),
                                    timestamp |-> PyFloat(t), screenshot |-> shot])],
              ret |-> IF FirstAssistant(data) # 0 THEN PyStr(response_text) ELSE PyNone]
    ELSE [ai |-> a, ret |-> PyStr("Error: Run failed with status " \o status)]

\* The end of send_message once the run has left the polling loop in the
\* given status: what it returns and the assistant object afterwards
SendResult(a, content, shot, status, data, t) ==
    IF status = "completed"
    THEN IF FirstAssistant(data) # 0
         THEN LET response_text == ResponseText(data[FirstAssistant(data)].content) IN
              [ai |-> [a EXCEPT !.conversation_history =
                          Append(@, [user |-> PyStr(content),
                                     assistant |-> PyStr(response_text),
                                     timestamp |-> PyFloat(t), screenshot |-> shot])],
               ret |-> PyStr(response_text)]
         ELSE [ai |-> a, ret |-> PyNone]
    ELSE [ai |-> a, ret |-> PyStr("Error: Run failed with status " \o status)]

\* except Exception as e
SendError(e) == PyStr("Error communicating with AI: " \o e)

\* What a request to the remote service does: it succeeds or raises e
Requests == {[raise |-> FALSE, e |-> ""]} \cup {[raise |-> TRUE, e |-> e] : e \in RawErrors}

\* How the polling loop ends: the run reaches an end status, or a request
\* (runs.retrieve, messages.list) raises
PollOutcomes ==
    {[raise |-> FALSE, e |-> "", status |-> "completed", data |-> d] : d \in MessageLists}
    \cup {[raise |-> FALSE, e |-> "", status |-> st, data |-> <<>>] :
            st \in EndStatuses \ {"completed"}}
    \cup {[raise |-> TRUE, e |-> e, status |-> "in_progress", data |-> <<>>] : e \in RawErrors}

\* A caller enters send_message(content, screenshot_path)
CallSend ==
    /\ FreeWorkers # {}
    /\ hist.sends < MaxSends
    /\ \E content \in Contents, shot \in ScreenshotPaths :
          /\ workers' = [workers EXCEPT ![NextWorker] =
                            [WorkerFree EXCEPT !.pc = "get_thread", !.kind = "call",
                                               !.content = content, !.shot = shot]]
          /\ obs' = [ObsInit EXCEPT !.op = "call_send", !.who = NextWorker]
    /\ hist' = [hist EXCEPT !.sends = @ + 1]
    /\ UNCHANGED <<now, detVars, running, camera, pcLoop, loc, pcGui, errq, gui, ai, cfg>>

\* _get_or_create_thread: the test of self.thread_id
SendGetThread(w) ==
    /\ workers[w].pc = "get_thread"
    /\ workers' = [workers EXCEPT ![w].pc = IF ai.thread_id = None THEN "create_thread"
                                            ELSE "post",
                                  ![w].tid = ai.thread_id]
    /\ obs' = [ObsInit EXCEPT !.op = "get_thread", !.who = w]
    /\ UNCHANGED <<now, detVars, running, camera, pcLoop, loc, pcGui, errq, gui, hist, ai, cfg>>

\* _get_or_create_thread: self.thread_id = self._create_thread()
SendCreateThread(w) ==
    /\ workers[w].pc = "create_thread"
    /\ \E rq \in Requests :
          IF rq.raise
          THEN /\ workers' = [workers EXCEPT ![w].pc = "return", ![w].ret = SendError(rq.e)]
               /\ obs' = [ObsInit EXCEPT !.op = "create_thread", !.who = w, !.exc = TRUE]
               /\ UNCHANGED ai
          ELSE /\ ai' = [ai EXCEPT !.remote_threads = @ + 1, !.thread_id = ai.remote_threads + 1]
               /\ workers' = [workers EXCEPT ![w].pc = "post",
                                             ![w].tid = ai.remote_threads + 1]
               /\ obs' = [ObsInit EXCEPT !.op = "create_thread", !.who = w]
    /\ UNCHANGED <<now, detVars, running, camera, pcLoop, loc, pcGui, errq, gui, hist, cfg>>

\* messages.create and runs.create on the caller's thread_id
SendPost(w) ==
    /\ workers[w].pc = "post"
    /\ \E rq \in Requests :
          IF rq.raise
          THEN /\ workers' = [workers EXCEPT ![w].pc = "return", ![w].ret = SendError(rq.e)]
               /\ obs' = [ObsInit EXCEPT !.op = "post", !.who = w, !.exc = TRUE]
               /\ UNCHANGED hist
          ELSE /\ workers' = [workers EXCEPT ![w].pc = "poll"]
               /\ hist' = [hist EXCEPT !.submitted = @ \cup {workers[w].tid}]
               /\ obs' = [ObsInit EXCEPT !.op = "post", !.who = w]
    /\ UNCHANGED <<now, detVars, running, camera, pcLoop, loc, pcGui, errq, gui, ai, cfg>>

\* The polling loop ends and send_message computes what it returns
SendPoll(w) ==
    /\ workers[w].pc = "poll"
    /\ \E o \in PollOutcomes :
          LET r == IF o.raise THEN [ai |-> ai, ret |-> SendError(o.e)]
                   ELSE SendResult(ai, workers[w].content, workers[w].shot,
                                   o.status, o.data, now)
          IN  /\ ai' = r.ai
              /\ workers' = [workers EXCEPT ![w].pc = "return", ![w].ret = r.ret]
              /\ obs' = [ObsInit EXCEPT !.op = "poll", !.who = w, !.exc = o.raise,
                            !.outcome = o, !.ret = r.ret,
                            !.pre = ai.conversation_history]
    /\ UNCHANGED <<now, detVars, running, camera, pcLoop, loc, pcGui, errq, gui, hist, cfg>>

\* send_message returns to a direct caller
SendReturn(w) ==
    /\ workers[w].pc = "return"
    /\ workers[w].kind = "call"
    /\ workers' = [workers EXCEPT ![w] = WorkerFree]
    /\ obs' = [ObsInit EXCEPT !.op = "send_message", !.who = w, !.ret = workers[w].ret,
                  !.pre = ai.conversation_history]
    /\ UNCHANGED <<now, detVars, running, camera, pcLoop, loc, pcGui, errq, gui, hist, ai, cfg>>

\* clear_conversation
ClearConversation ==
    /\ ai' = [ai EXCEPT !.thread_id = None, !.conversation_history = <<>>]
    /\ hist' = [hist EXCEPT !.clears = 1]
    /\ obs' = [ObsInit EXCEPT !.op = "clear_conversation", !.pre = ai.conversation_history]
    /\ UNCHANGED <<now, detVars, running, camera, pcLoop, loc, pcGui, errq, gui, workers, cfg>>

\* json.dump of one Python value
JsonEncode(x) ==
    CASE x.type = "NoneType" -> [json |-> "null"]
      [] x.type = "str" -> [json |-> "string", v |-> x.v]
      [] x.type = "float" -> [json |-> "number", v |-> x.v]

\* Faulty variant of JsonDecode: null is read back as the text "null"
JsonDecodeNullAsStr(j) ==
    CASE j.json = "null" -> PyStr("null")
      [] j.json = "string" -> PyStr(j.v)
      [] j.json = "number" -> PyFloat(j.v)

\* json.load of one JSON value
JsonDecode(j) ==
    CASE j.json = "null" -> PyNone
      [] j.json = "string" -> PyStr(j.v)
      [] j.json = "number" -> PyFloat(j.v)

\* The keys of a transcript entry, in the order they are written
EntryKeys == <<"user", "assistant", "timestamp", "screenshot">>

\* json.dump of the transcript: a list of objects, each the key/value pairs
\* of an entry in insertion order
json_dump(history) ==
    [i \in 1..Len(history) |->
        [k \in 1..Len(EntryKeys) |->
            [key |-> EntryKeys[k],
             value |-> JsonEncode(CASE k = 1 -> history[i].user
                                    [] k = 2 -> history[i].assistant
                                    [] k = 3 -> history[i].timestamp
                                    [] k = 4 -> history[i].screenshot)]]]

\* The value an object holds under a key
ObjectGet(object, key) ==
    object[CHOOSE k \in 1..Len(object) : object[k].key = key].value

\* json.load of a file json_dump wrote
json_load(text) ==
    [i \in 1..Len(text) |->
        [user |-> JsonDecode(ObjectGet(text[i], "user")),
         assistant |-> JsonDecode(ObjectGet(text[i], "assistant")),
         timestamp |-> JsonDecode(ObjectGet(text[i], "timestamp")),
         screenshot |-> JsonDecode(ObjectGet(text[i], "screenshot"))]]

\* save_conversation(filepath)
SaveConversation ==
    /\ ai' = [ai EXCEPT !.file = [exists |-> TRUE, text |-> json_dump(ai.conversation_history)]]
    /\ hist' = [hist EXCEPT !.saved = ai.conversation_history]
    /\ obs' = [ObsInit EXCEPT !.op = "save_conversation", !.pre = ai.conversation_history]
    /\ UNCHANGED <<now, detVars, running, camera, pcLoop, loc, pcGui, errq, gui, workers, cfg>>

\* load_conversation(filepath)
LoadConversation ==
    /\ ai' = IF ai.file.exists
             THEN [ai EXCEPT !.conversation_history = json_load(ai.file.text)]
             ELSE ai
    /\ obs' = [ObsInit EXCEPT !.op = "load_conversation", !.cond = ai.file.exists,
                  !.pre = ai.conversation_history]
    /\ UNCHANGED <<now, detVars, running, camera, pcLoop, loc, pcGui, errq, gui, hist,
                   workers, cfg>>

\* Specification SpecAssistant: the assistant object used by up to two
\* threads at a time
InitAssistant == InitOrch(FALSE)

NextAssistant ==
    \/ CallSend
    \/ \E w \in WorkerIds : SendGetThread(w)
    \/ \E w \in WorkerIds : SendCreateThread(w)
    \/ \E w \in WorkerIds : SendPost(w)
    \/ \E w \in WorkerIds : SendPoll(w)
    \/ \E w \in WorkerIds : SendReturn(w)
    \/ ClearConversation
    \/ SaveConversation
    \/ LoadConversation

SpecAssistant == InitAssistant /\ [][NextAssistant]_vars

\* C13: conversation thread reuse.  As long as clear_conversation has not
\* been called, at most one remote conversation thread has been created and
\* all messages have been submitted to one and the same thread, however the
\* send_message calls interleave.
C13_ThreadReuse ==
    hist.clears = 0 =>
        /\ ai.remote_threads <= 1
        /\ Cardinality(hist.submitted) <= 1

\* C14: send_message returns a string for every outcome of the exchange:
\* the reply text when the run completes, an error string naming the status
\* when it ends otherwise, a formatted error string when a request raises.
C14_SendReturnsString ==
    /\ obs.op = "send_message" => obs.ret.type = "str"
    /\ obs.op = "poll" =>
          /\ obs.ret.type = "str"
          /\ obs.exc => obs.ret = PyStr("Error communicating with AI: " \o obs.outcome.e)
          /\ (~obs.exc /\ obs.outcome.status # "completed") =>
                obs.ret = PyStr("Error: Run failed with status " \o obs.outcome.status)

\* The transcript entry the call of thread w appends
EntryOf(w, reply) ==
    [user |-> PyStr(workers[w].content), assistant |-> reply,
     timestamp |-> PyFloat(now), screenshot |-> workers[w].shot]

C16_RoundTrip ==
    obs.op = "load_conversation" =>
        IF obs.cond THEN ai.conversation_history = hist.saved
        ELSE ai.conversation_history = obs.pre

\* C16 witness: a saved transcript of two entries, one without a screenshot,
\* is loaded back after the transcript was cleared
C16_Witness ==
    /\ obs.op = "load_conversation"
    /\ obs.cond
    /\ obs.pre = <<>>
    /\ Len(ai.conversation_history) = 2
    /\ \E i \in 1..2 : ai.conversation_history[i].screenshot = PyNone
    /\ \E i \in 1..2 : ai.conversation_history[i].screenshot # PyNone

-----------------------------------------------------------------------------
(* The gesture pipeline: every dispatched label runs                       *)
(* _capture_screenshot_async on a thread of its own, which captures the    *)
(* screen, calls send_message and publishes what it returned.              *)

\* _get_gesture_prompt for the labels the camera loop of this model returns
get_gesture_prompt(gesture_type) ==
    CASE gesture_type = "left_wave" ->
           "I'm doing a wave with my left hand! Can you help me with what's currently on my screen?"
      [] gesture_type = "right_wave" ->
           "I'm doing a wave with my right hand! Can you help me with what's currently on my screen?"
      [] gesture_type = "wave" ->
           "Hello! I just waved at you. Can you help me with what's currently on my screen?"
      [] gesture_type = "smile" ->
           "I'm smiling at the camera! Can you help me with what's on my screen in a positive and encouraging way?"
      [] OTHER -> "I performed a gesture. Please help me with my current screen."

\* ErrorHandler.handle_generic_error(e, "async screenshot capture")
handle_generic_error_async ==
    "An unexpected error occurred in async screenshot capture. Please try again."

\* capture_screenshot returns a path or None; the prompt is built and
\* send_message is entered
WorkerCapture(w) ==
    /\ workers[w].pc = "capture"
    /\ \E shot \in ScreenshotPaths :
          workers' = [workers EXCEPT ![w].pc = "get_thread", ![w].shot = shot,
                                     ![w].content = get_gesture_prompt(workers[w].gesture)]
    /\ obs' = [ObsInit EXCEPT !.op = "capture", !.who = w]
    /\ UNCHANGED <<now, detVars, running, camera, pcLoop, loc, pcGui, errq, gui, hist, ai, cfg>>

\* ai_response_received.emit(response) on the background thread: a str is
\* queued to show_response; None is refused by the str signal, and the
\* except branch publishes the sentence of handle_generic_error
WorkerPublish(w) ==
    /\ workers[w].pc = "return"
    /\ workers[w].kind = "gesture"
    /\ IF workers[w].ret.type = "str"
       THEN /\ workers' = [workers EXCEPT ![w] = IF gui.connected
                                                  THEN [@ EXCEPT !.pc = "queued"]
                                                  ELSE WorkerFree]
            /\ obs' = [ObsInit EXCEPT !.op = "publish", !.who = w,
                          !.ret = workers[w].ret]
            /\ UNCHANGED errq
       ELSE /\ Len(errq) < MaxErrors
            /\ workers' = [workers EXCEPT ![w] = WorkerFree]
            /\ errq' = EmitQueued(errq, handle_generic_error_async)
            /\ obs' = [ObsInit EXCEPT !.op = "publish", !.who = w, !.exc = TRUE,
                          !.ret = workers[w].ret,
                          !.emitted = <<handle_generic_error_async>>]
    /\ UNCHANGED <<now, detVars, running, camera, pcLoop, loc, pcGui, gui, hist, ai, cfg>>

\* MainWindow.show_response run by the GUI thread: the popup shows the text
ShowResponse(w) ==
    /\ pcGui = "idle"
    /\ workers[w].pc = "queued"
    /\ workers' = [workers EXCEPT ![w] = WorkerFree]
    /\ hist' = [hist EXCEPT !.popups = @ \cup {workers[w].ret.v}]
    /\ obs' = [ObsInit EXCEPT !.op = "show_response", !.who = w, !.ret = workers[w].ret]
    /\ UNCHANGED <<now, detVars, running, camera, pcLoop, loc, pcGui, errq, gui, ai, cfg>>

\* The exchange of a background thread takes seconds: time passes 3.5 s at
\* a time
WaitSteps == {35}

Wait ==
    \E dt \in WaitSteps :
        /\ now + dt <= Epoch + MaxTime
        /\ now' = now + dt
        /\ obs' = [ObsInit EXCEPT !.op = "tick"]
        /\ UNCHANGED <<detVars, orchVars>>

\* Specification SpecPipeline: the application after a click on the start
\* button opened the camera and started the loop thread, with the camera
\* loop, the background threads it starts and the GUI thread's slots
InitPipeline ==
    /\ now = Epoch
    /\ profile = "extended"
    /\ det = DetInit
    /\ obs = ObsInit
    /\ track = TrackInit
    /\ feed = {}
    /\ running = TRUE
    /\ camera = "open"
    /\ pcLoop = "entry"
    /\ loc = [last_gesture_time |-> 0]
    /\ pcGui = "idle"
    /\ errq = <<>>
    /\ gui = [connected |-> TRUE, start_btn |-> "Stop Detection"]
    /\ hist = HistInit
    /\ ai = AiInit
    /\ workers = [w \in WorkerIds |-> WorkerFree]
    /\ cfg = CfgInit

NextPipeline ==
    \/ OnError
    \/ StopWait
    \/ LoopEnter
    \/ LoopTest
    \/ LoopRead
    \/ LoopProcess
    \/ Wait
    \/ \E w \in WorkerIds :
          \/ WorkerCapture(w)
          \/ SendGetThread(w)
          \/ SendCreateThread(w)
          \/ SendPost(w)
          \/ SendPoll(w)
          \/ WorkerPublish(w)
          \/ ShowResponse(w)

SpecPipeline == InitPipeline /\ [][NextPipeline]_vars

\* The loop thread's next step can be taken
LoopCanStep ==
    /\ pcLoop = "entry" => ENABLED LoopEnter
    /\ pcLoop = "test" => ENABLED LoopTest
    /\ pcLoop = "read" => ENABLED LoopRead
    /\ pcLoop = "process" => ENABLED LoopProcess

\* C11: gesture handling never stalls frame capture.  Each dispatched label
\* is handed to a background thread of its own, and while an exchange is in
\* flight, whatever its step and however long its remote run takes, the
\* loop thread's next step (the test of the flag, the read of a frame, the
\* processing and publishing of the frame) can be taken.
C11_LoopNeverStalls ==
    /\ (obs.op = "loop" /\ obs.dispatched) =>
          \E w \in InFlight : workers[w] = handle_gesture(obs.label)
    /\ (InFlight # {} /\ camera = "open") => LoopCanStep

\* C11 witness: a frame is read while the remote run of an exchange has not
\* finished
C11_Witness ==
    /\ obs.op = "read"
    /\ obs.opened
    /\ \E w \in InFlight : workers[w].pc = "poll"

\* C12: at most one gesture-triggered exchange is in flight at any time.
C12_OneExchangeInFlight == Cardinality(InFlight) <= 1

\* The sentences of ErrorHandler that the orchestrator publishes
FixedSentences ==
    {handle_camera_error, handle_gesture_detection_error, handle_generic_error_async}

\* The texts of assistant messages
ReplyTexts ==
    {ResponseText(l[FirstAssistant(l)].content) :
        l \in {d \in MessageLists : FirstAssistant(d) # 0}}

\* C17: no raw exception text reaches the GUI.  Every text queued for the
\* status line, and every text shown in the response popup that is not the
\* assistant's reply, is one of the fixed sentences of ErrorHandler.
C17_NoRawExceptionText ==
    /\ \A i \in 1..Len(errq) : errq[i] \in FixedSentences
    /\ \A p \in hist.popups : p \in ReplyTexts \cup FixedSentences

-----------------------------------------------------------------------------
(* The settings: ConfigManager's document, the window's document and the  *)
(* settings file, from the construction of the application on.            *)

Modes == {"fullscreen", "active_window"}

Qualities == {90, 50}

Documents == [mode : Modes, quality : Qualities, enable_tts : BOOLEAN]

\* The settings files the application may find at startup
StartFiles == {NoFile, FileOf(GarbageText)} \cup {FileOf(ConfigDump(d)) : d \in Documents}

\* ConfigManager.save_config: the document is written to the settings file
save_config(c) == [c EXCEPT !.file = FileOf(ConfigDump(c.config))]

\* ConfigManager.load_config
load_config(c) ==
    IF ~c.file.exists
    THEN save_config([c EXCEPT !.config = get_default_config])
    ELSE IF ConfigParse(c.file.text).raise
         THEN [c EXCEPT !.config = get_default_config]
         ELSE [c EXCEPT !.config = ConfigParse(c.file.text).doc]

\* create_app: the window is built on the document read from the settings
\* file; raise tells that open or json.load raised
create_app(c) ==
    IF c.file.exists /\ ~ConfigParse(c.file.text).raise
    THEN [raise |-> FALSE, window |-> ConfigParse(c.file.text).doc]
    ELSE [raise |-> TRUE, window |-> c.window]

\* GestureAgentApp.__init__: ConfigManager() loads the settings
NewApp ==
    /\ cfg.phase = "new"
    /\ cfg' = [load_config(cfg) EXCEPT !.phase = "loaded", !.before = cfg.file]
    /\ obs' = [ObsInit EXCEPT !.op = "load_config"]
    /\ UNCHANGED <<now, detVars, running, camera, pcLoop, loc, pcGui, errq, gui, hist,
                   ai, workers>>

\* GestureAgentApp.run up to window.show(): create_app, or the except
\* branch that returns 1
RunApp ==
    /\ cfg.phase = "loaded"
    /\ LET r == create_app(cfg) IN
          cfg' = IF r.raise
                 THEN [cfg EXCEPT !.phase = "exited", !.exit_code = 1]
                 ELSE [cfg EXCEPT !.phase = "running", !.window = r.window]
    /\ obs' = [ObsInit EXCEPT !.op = "run", !.exc = create_app(cfg).raise]
    /\ UNCHANGED <<now, detVars, running, camera, pcLoop, loc, pcGui, errq, gui, hist,
                   ai, workers>>

\* ConfigWindow.save_config on a copy of the window's document, then
\* MainWindow.update_config
DialogEdit(doc, M, Q, T) == [doc EXCEPT !.mode = M, !.quality = Q, !.enable_tts = T]

\* The settings dialog is opened, edited and saved
DialogSave ==
    /\ cfg.phase = "running"
    /\ \E M \in Modes, Q \in Qualities, T \in BOOLEAN :
          LET new_config == DialogEdit(cfg.window, M, Q, T) IN
          cfg' = [cfg EXCEPT !.window = new_config,
                             !.file = FileOf(ConfigDump(new_config)),
                             !.edited = new_config]
    /\ obs' = [ObsInit EXCEPT !.op = "dialog_save"]
    /\ UNCHANGED <<now, detVars, running, camera, pcLoop, loc, pcGui, errq, gui, hist,
                   ai, workers>>

\* The settings dialog is opened, edited and cancelled
DialogCancel ==
    /\ cfg.phase = "running"
    /\ \E M \in Modes, Q \in Qualities, T \in BOOLEAN :
          cfg' = [cfg EXCEPT !.edited = DialogEdit(cfg.window, M, Q, T)]
    /\ obs' = [ObsInit EXCEPT !.op = "dialog_cancel", !.pre = <<cfg.config, cfg.window>>]
    /\ UNCHANGED <<now, detVars, running, camera, pcLoop, loc, pcGui, errq, gui, hist,
                   ai, workers>>

\* Specification SpecConfig: the application is constructed over any
\* settings file and run; the settings dialog is used
InitConfig ==
    /\ now = Epoch
    /\ profile = "extended"
    /\ det = DetInit
    /\ obs = ObsInit
    /\ track = TrackInit
    /\ feed = {}
    /\ running = FALSE
    /\ camera = "None"
    /\ pcLoop = "unstarted"
    /\ loc = [last_gesture_time |-> 0]
    /\ pcGui = "idle"
    /\ errq = <<>>
    /\ gui = [connected |-> FALSE, start_btn |-> "Start Detection"]
    /\ hist = HistInit
    /\ ai = AiInit
    /\ workers = [w \in WorkerIds |-> WorkerFree]
    /\ cfg \in {CfgNew(f) : f \in StartFiles}

NextConfig ==
    \/ NewApp
    \/ RunApp
    \/ DialogSave
    \/ DialogCancel

SpecConfig == InitConfig /\ [][NextConfig]_vars

\* C18: the Configuration Manager is the sole source of the tunables.
\* After the settings dialog is saved with mode M, quality Q and TTS flag T,
\* the document the orchestrator reads holds M, Q and T and the next
\* handled gesture captures with mode M and quality Q; after it is
\* cancelled, neither the window's nor the orchestrator's document changed.
C18_DialogReachesOrchestrator ==
    /\ obs.op = "dialog_save" =>
          /\ cfg.window = cfg.edited
          /\ cfg.config = cfg.edited
          /\ handle_gesture("smile").mode = cfg.edited.mode
          /\ handle_gesture("smile").quality = cfg.edited.quality
    /\ obs.op = "dialog_cancel" => obs.pre = <<cfg.config, cfg.window>>

\* C19: a settings file that exists but cannot be parsed does not stop
\* startup: the defaults are used, the window is created and run does not
\* return 1.
C19_UnparsableFileStarts ==
    (obs.op = "run" /\ cfg.before = FileOf(GarbageText)) =>
        /\ cfg.phase = "running"
        /\ cfg.exit_code # 1
        /\ cfg.config = get_default_config
        /\ cfg.window = get_default_config

\* C20: when the settings file is missing or fails to parse, load_config
\* makes the built-in defaults the document in memory and writes them to
\* the settings file.
C20_DefaultsPersisted ==
    (obs.op = "load_config"
       /\ (~cfg.before.exists \/ ConfigParse(cfg.before.text).raise)) =>
        /\ cfg.config = get_default_config
        /\ cfg.file = FileOf(ConfigDump(get_default_config))

-----------------------------------------------------------------------------
(* Specification SpecHistory: detect_wave_gesture and detect_blink_gesture *)
(* of one detector called in any order, for as long as one likes.          *)

HistoryHands == {PalmPose(30), PalmPose(50), FistPose(40)}

HistoryFaces == {NeutralFace}

HistoryWave ==
    /\ \E lm \in HistoryHands :
          /\ det' = detect_wave_gesture(det, lm).d
          /\ obs' = [ObsInit EXCEPT !.op = "history_wave", !.pre = det.wave_history,
                        !.fired = detect_wave_gesture(det, lm).fired]
    /\ UNCHANGED <<now, profile, track, feed, orchVars>>

HistoryBlink ==
    /\ \E fl \in HistoryFaces :
          /\ det' = detect_blink_gesture(det, fl).d
          /\ obs' = [ObsInit EXCEPT !.op = "history_blink", !.pre = det.left_eye_history]
    /\ UNCHANGED <<now, profile, track, feed, orchVars>>

InitHistory == InitWave

NextHistory == HistoryWave \/ HistoryBlink

SpecHistory == InitHistory /\ [][NextHistory]_vars

\* C27: rolling-history bounds.  In every state of the detector the wave
\* history holds at most 10 samples, each eye history holds at most 5, and
\* the two eye histories have the same length.
C27_HistoryBounds ==
    /\ Len(det.wave_history) <= WaveHistoryMax
    /\ Len(det.left_eye_history) <= EyeHistoryMax
    /\ Len(det.right_eye_history) <= EyeHistoryMax
    /\ Len(det.left_eye_history) = Len(det.right_eye_history)

\* C27 witness: a sample is appended to a full wave history, which drops
\* its oldest sample, while the eye histories are full
C27_Witness ==
    /\ obs.op = "history_wave"
    /\ Len(obs.pre) = WaveHistoryMax
    /\ Len(det.wave_history) = WaveHistoryMax
    /\ det.wave_history = Append(Tail(obs.pre), det.wave_history[WaveHistoryMax])
    /\ Len(det.left_eye_history) = EyeHistoryMax
    /\ Len(det.right_eye_history) = EyeHistoryMax

\* C28 as stated: a label returned when at least 3.0 s have elapsed since
\* the run's last dispatch, exactly 3.0 s included, is dispatched and its
\* time becomes the last-handled time.
C28_BoundaryDispatched ==
    (obs.op = "loop" /\ obs.label # Absent /\ obs.prevDispatch # None
       /\ now - obs.prevDispatch >= outer_gesture_cooldown) =>
        /\ obs.dispatched
        /\ loc.last_gesture_time = now

\* C28, amended: a label returned more than 3.0 s after the run's last
\* dispatch is dispatched and its time becomes the last-handled time; a
\* label returned exactly 3.0 s after it is not dispatched and leaves the
\* last-handled time as it was.
C28_StrictBoundary ==
    (obs.op = "loop" /\ obs.label # Absent /\ obs.prevDispatch # None) =>
        /\ now - obs.prevDispatch > outer_gesture_cooldown =>
              (obs.dispatched /\ loc.last_gesture_time = now)
        /\ now - obs.prevDispatch = outer_gesture_cooldown =>
              (~obs.dispatched /\ loc.last_gesture_time = obs.prevDispatch)

\* C28 witness: the engine returns a label exactly 3.0 s after the run's
\* last dispatch
C28_Witness ==
    /\ obs.op = "loop"
    /\ obs.label # Absent
    /\ obs.prevDispatch # None
    /\ now - obs.prevDispatch = outer_gesture_cooldown
    /\ ~obs.dispatched

\* C29: the engine cooldown does not interfere with the outer handling.  A
\* gesture whose rule fires in a frame more than 3.0 s after the run's last
\* dispatch is dispatched.
C29_EngineCooldownNoInterference ==
    (obs.op = "loop" /\ ~obs.exc
       /\ (obs.left # Absent \/ obs.right # Absent \/ obs.face # Absent)
       /\ obs.prevDispatch # None
       /\ now - obs.prevDispatch > outer_gesture_cooldown) =>
        obs.dispatched

\* C30: the outer cooldown holds across sessions.  Two consecutive
\* dispatches are never less than 3.0 s apart, whether or not detection was
\* stopped and started again between them.
C30_CooldownAcrossSessions ==
    hist.prevHandled # None =>
        hist.lastHandled - hist.prevHandled >= outer_gesture_cooldown

-----------------------------------------------------------------------------
(* The dotted-path interface of ConfigManager: get_config_value and        *)
(* update_config on a settings document of nested mappings.                *)

PathKeys == {"screenshot", "mode"}

\* The dotted paths of depth 1 to 4, split at the dots
Paths == UNION {[1..n -> PathKeys] : n \in 1..4}

\* The paths update_config is called with
UpdatePaths ==
    {<<"screenshot">>, <<"screenshot", "mode">>, <<"screenshot", "mode", "screenshot">>,
     <<"screenshot", "mode", "screenshot", "mode">>, <<"mode">>, <<"mode", "screenshot">>,
     <<"mode", "screenshot", "mode">>, <<"mode", "screenshot", "mode", "screenshot">>}

\* The values update_config is called with
UpdateValues == {IntOf(50), StrOf("mode")}

\* The default a caller of get_config_value supplies
CallerDefault == StrOf("default")

\* key in target, for a target that is a string: the keys of this model
\* are substrings only of themselves
KeyInString(key, str) == key = str

RECURSIVE GetWalk(_, _, _)
\* The for loop of get_config_value over the remaining keys; raise tells
\* that a step raised (a membership test on a number, an index into a string)
GetWalk(target, keys, default) ==
    IF keys = <<>> THEN [raise |-> FALSE, value |-> target]
    ELSE CASE target.kind = "map" ->
                IF Head(keys) \in DOMAIN target.items
                THEN GetWalk(target.items[Head(keys)], Tail(keys), default)
                ELSE [raise |-> FALSE, value |-> default]
           [] target.kind = "str" ->
                IF KeyInString(Head(keys), target.s)
                THEN [raise |-> TRUE, value |-> default]
                ELSE [raise |-> FALSE, value |-> default]
           [] target.kind = "int" -> [raise |-> TRUE, value |-> default]

\* Faulty variant of get_config_value: without the except branch
GetNoExcept(document, path, default) == GetWalk(document, path, default)

\* get_config_value: the except branch returns the default
get_config_value(document, path, default) ==
    [raise |-> FALSE, value |-> GetWalk(document, path, default).value]

\* items with key bound to value
Bind(items, key, value) ==
    [k \in DOMAIN items \cup {key} |-> IF k = key THEN value ELSE items[k]]

RECURSIVE SetWalk(_, _, _)
\* update_config below target: missing intermediate mappings are created,
\* the last key is assigned; ok is false when a step raised
SetWalk(target, keys, value) ==
    IF Len(keys) = 1
    THEN IF target.kind = "map"
         THEN [ok |-> TRUE, node |-> MapOf(Bind(target.items, Head(keys), value))]
         ELSE [ok |-> FALSE, node |-> target]
    ELSE IF target.kind = "map"
         THEN LET child == IF Head(keys) \in DOMAIN target.items
                           THEN target.items[Head(keys)]
                           ELSE MapOf([k \in {} |-> IntOf(0)])
                  r == SetWalk(child, Tail(keys), value)
              IN  [ok |-> r.ok,
                   node |-> IF r.ok THEN MapOf(Bind(target.items, Head(keys), r.node))
                            ELSE target]
         ELSE [ok |-> FALSE, node |-> target]

\* A call of get_config_value(path, default)
GetConfigValue ==
    /\ \E path \in Paths :
          obs' = [ObsInit EXCEPT !.op = "get_config_value", !.pre = path,
                     !.exc = get_config_value(cfg.document, path, CallerDefault).raise,
                     !.ret = get_config_value(cfg.document, path, CallerDefault).value]
    /\ UNCHANGED <<now, detVars, orchVars>>

RECURSIVE JsonOfNode(_)
\* json.dump of a value of a settings document
JsonOfNode(node) ==
    CASE node.kind = "int" -> [json |-> "number", v |-> node.n]
      [] node.kind = "str" -> [json |-> "string", v |-> node.s]
      [] node.kind = "map" ->
           [json |-> "object",
            members |-> [k \in DOMAIN node.items |-> JsonOfNode(node.items[k])]]

RECURSIVE NodeOfJson(_)
\* json.load of a value of a settings document
NodeOfJson(j) ==
    CASE j.json = "number" -> IntOf(j.v)
      [] j.json = "string" -> StrOf(j.v)
      [] j.json = "object" ->
           MapOf([k \in DOMAIN j.members |-> NodeOfJson(j.members[k])])

\* save_config of a document of nested mappings
SaveDocument(c) == [c EXCEPT !.file = FileOf([kind |-> "json", tree |-> JsonOfNode(c.document)])]

\* A call of update_config(path, value) with a path of paths: the document
\* is changed and, if no step raised, written to the settings file
UpdateConfigIn(paths) ==
    /\ \E path \in paths, value \in UpdateValues :
          LET r == SetWalk(cfg.document, path, value) IN
          /\ cfg' = IF r.ok THEN SaveDocument([cfg EXCEPT !.document = r.node]) ELSE cfg
          /\ obs' = [ObsInit EXCEPT !.op = "update_config", !.pre = path,
                        !.cond = r.ok, !.outcome = value]
    /\ UNCHANGED <<now, detVars, running, camera, pcLoop, loc, pcGui, errq, gui, hist,
                   ai, workers>>

UpdateConfig == UpdateConfigIn(UpdatePaths)

\* Specification SpecPaths: reads and updates of dotted paths
InitPaths == InitOrch(FALSE)

NextPaths == GetConfigValue \/ UpdateConfig

SpecPaths == InitPaths /\ [][NextPaths]_vars

RECURSIVE NodeAt(_, _)
\* The value a document stores under a path whose every segment exists
NodeAt(node, path) ==
    IF path = <<>> THEN node ELSE NodeAt(node.items[Head(path)], Tail(path))

\* Every segment of the path exists: each prefix leads to a mapping that
\* holds the next key
SegmentsExist(document, path) ==
    \A i \in 1..Len(path) :
        /\ \A j \in 1..(i - 1) : NodeAt(document, SubSeq(path, 1, j)).kind = "map"
        /\ Head(SubSeq(path, i, i)) \in DOMAIN NodeAt(document, SubSeq(path, 1, i - 1)).items

\* C21: get_config_value returns the stored value when every segment of
\* the path exists and the caller's default when a segment is absent or an
\* intermediate value is not a mapping, and never raises; after a
\* successful update_config(path, v), get_config_value(path) returns v.
C21_DottedPaths ==
    /\ obs.op = "get_config_value" =>
          /\ ~obs.exc
          /\ obs.ret = IF SegmentsExist(cfg.document, obs.pre)
                       THEN NodeAt(cfg.document, obs.pre)
                       ELSE CallerDefault
    /\ (obs.op = "update_config" /\ obs.cond) =>
          get_config_value(cfg.document, obs.pre, CallerDefault)
              = [raise |-> FALSE, value |-> obs.outcome]

\* C21 witness: a path of depth 4 is read through a string that holds its
\* next key, and the default comes back
C21_Witness ==
    /\ obs.op = "get_config_value"
    /\ Len(obs.pre) = 4
    /\ \E i \in 1..3 :
          /\ SegmentsExist(cfg.document, SubSeq(obs.pre, 1, i))
          /\ NodeAt(cfg.document, SubSeq(obs.pre, 1, i)) = StrOf(obs.pre[i + 1])
    /\ obs.ret = CallerDefault

-----------------------------------------------------------------------------
(* validate_config                                                         *)

\* A settings document holding the three validated settings, the
\* confidence threshold in hundredths
ValidatedDocument(threshold, quality, mode) ==
    MapOf([k \in {"gestures", "screenshot"} |->
        IF k = "gestures"
        THEN MapOf([w \in {"wave"} |->
                 MapOf([c \in {"confidence_threshold"} |-> IntOf(threshold)])])
        ELSE MapOf([q \in {"quality", "mode"} |->
                 IF q = "quality" THEN IntOf(quality) ELSE StrOf(mode)])])

Thresholds == {5, 10, 80, 100, 101}

QualityValues == {5, 10, 90, 100, 101}

ModeValues == {"fullscreen", "active_window", "window"}

ApiKeys == {"", "sk-test"}

\* Faulty variant of validate_config: the range checks exclude their bounds
ValidateOpenRanges(env_vars, document) ==
    LET sensitivity == get_config_value(document,
                           <<"gestures", "wave", "confidence_threshold">>, NoneOf).value
        quality == get_config_value(document, <<"screenshot", "quality">>, NoneOf).value
        mode == get_config_value(document, <<"screenshot", "mode">>, NoneOf).value
        errors ==
            (IF env_vars.OPENAI_API_KEY.v = ""
             THEN <<"OpenAI API key is required">> ELSE <<>>)
            \o (IF ~(10 < sensitivity.n /\ sensitivity.n < 100)
                THEN <<"Gesture sensitivity must be between 0.1 and 1.0">> ELSE <<>>)
            \o (IF ~(10 < quality.n /\ quality.n < 100)
                THEN <<"Screenshot quality must be between 10 and 100">> ELSE <<>>)
            \o (IF mode \notin {StrOf("fullscreen"), StrOf("active_window")}
                THEN <<"Screenshot mode must be 'fullscreen' or 'active_window'">>
                ELSE <<>>)
    IN  [ok |-> Len(errors) = 0, errors |-> errors]

\* validate_config on a document that holds the two numbers
validate_config(env_vars, document) ==
    LET sensitivity == get_config_value(document,
                           <<"gestures", "wave", "confidence_threshold">>, NoneOf).value
        quality == get_config_value(document, <<"screenshot", "quality">>, NoneOf).value
        mode == get_config_value(document, <<"screenshot", "mode">>, NoneOf).value
        errors ==
            (IF env_vars.OPENAI_API_KEY.v = ""
             THEN <<"OpenAI API key is required">> ELSE <<>>)
            \o (IF ~(10 <= sensitivity.n /\ sensitivity.n <= 100)
                THEN <<"Gesture sensitivity must be between 0.1 and 1.0">> ELSE <<>>)
            \o (IF ~(10 <= quality.n /\ quality.n <= 100)
                THEN <<"Screenshot quality must be between 10 and 100">> ELSE <<>>)
            \o (IF mode \notin {StrOf("fullscreen"), StrOf("active_window")}
                THEN <<"Screenshot mode must be 'fullscreen' or 'active_window'">>
                ELSE <<>>)
    IN  [ok |-> Len(errors) = 0, errors |-> errors]

\* A call of validate_config
ValidateConfig ==
    /\ obs' = [ObsInit EXCEPT !.op = "validate_config",
                  !.cond = validate_config(cfg.env_vars, cfg.document).ok,
                  !.ret = validate_config(cfg.env_vars, cfg.document).errors]
    /\ UNCHANGED <<now, detVars, orchVars>>

\* Specification SpecValidate: validate_config on any combination of the
\* four validated values
InitValidate ==
    /\ now = Epoch
    /\ profile = "extended"
    /\ det = DetInit
    /\ obs = ObsInit
    /\ track = TrackInit
    /\ feed = {}
    /\ running = FALSE
    /\ camera = "None"
    /\ pcLoop = "unstarted"
    /\ loc = [last_gesture_time |-> 0]
    /\ pcGui = "idle"
    /\ errq = <<>>
    /\ gui = [connected |-> FALSE, start_btn |-> "Start Detection"]
    /\ hist = HistInit
    /\ ai = AiInit
    /\ workers = [w \in WorkerIds |-> WorkerFree]
    /\ \E th \in Thresholds, q \in QualityValues, m \in ModeValues, key \in ApiKeys :
          cfg = [CfgInit EXCEPT
                    !.document = ValidatedDocument(th, q, m),
                    !.environ = [NoEnviron EXCEPT !["OPENAI_API_KEY"] = key],
                    !.env_vars = load_env_vars(
                                    [NoEnviron EXCEPT !["OPENAI_API_KEY"] = key])]

NextValidate == ValidateConfig

SpecValidate == InitValidate /\ [][NextValidate]_vars

\* The checks of validate_config that the settings violate
ViolatedChecks ==
    LET d == cfg.document.items IN
    (IF cfg.environ["OPENAI_API_KEY"] = "" THEN {"OpenAI API key is required"} ELSE {})
    \cup (IF \/ d["gestures"].items["wave"].items["confidence_threshold"].n < 10
             \/ d["gestures"].items["wave"].items["confidence_threshold"].n > 100
          THEN {"Gesture sensitivity must be between 0.1 and 1.0"} ELSE {})
    \cup (IF d["screenshot"].items["quality"].n < 10 \/ d["screenshot"].items["quality"].n > 100
          THEN {"Screenshot quality must be between 10 and 100"} ELSE {})
    \cup (IF d["screenshot"].items["mode"].s \notin {"fullscreen", "active_window"}
          THEN {"Screenshot mode must be 'fullscreen' or 'active_window'"} ELSE {})

\* C22: validate_config reports exactly one problem for each violated
\* check and nothing else, no problem for the default values with an API
\* key, and its flag is true exactly when the list of problems is empty.
C22_Validate ==
    obs.op = "validate_config" =>
        /\ Range(obs.ret) = ViolatedChecks
        /\ Len(obs.ret) = Cardinality(ViolatedChecks)
        /\ obs.cond <=> obs.ret = <<>>
        /\ (cfg.document = ValidatedDocument(80, 90, "fullscreen")
              /\ cfg.environ["OPENAI_API_KEY"] # "") => obs.ret = <<>>

\* C22 witness: a threshold of 0.05, a quality of 5, an unknown mode and no
\* API key are validated, and four problems are reported
C22_Witness ==
    /\ obs.op = "validate_config"
    /\ cfg.document = ValidatedDocument(5, 5, "window")
    /\ cfg.environ["OPENAI_API_KEY"] = ""
    /\ Len(obs.ret) = 4
    /\ ~obs.cond

-----------------------------------------------------------------------------
(* Snapshots: export_config and import_config, with set_env_var and        *)
(* update_config changing the settings in between.                         *)

ApiKeyName == "OPENAI_API_KEY"

\* The API keys of this model
Secrets == {"sk-1", "sk-2"}

\* What set_env_var is called with
EnvUpdates ==
    {<<ApiKeyName, k>> : k \in Secrets}
    \cup {<<"GESTURE_SENSITIVITY", "0.5">>, <<"CAPTURE_MODE", "active_window">>}

\* set_env_var(key, value), the .env file being writable
set_env_var(c, key, value) ==
    [c EXCEPT !.env_vars[key] = PyStr(value), !.environ[key] = value]

\* str(value) of a value read from a snapshot
PyStrOf(x) == IF x.type = "float" THEN FloatStr(x.v) ELSE x.v

\* Faulty variant of export_config: every variable is exported
ExportEverything(c) ==
    [kind |-> "json",
     config |-> JsonOfNode(c.document),
     env_vars |-> [k \in EnvNames |-> JsonEncode(c.env_vars[k])]]

\* export_config: the text written to the snapshot file
export_config(c) ==
    [kind |-> "json",
     config |-> JsonOfNode(c.document),
     env_vars |-> [k \in EnvNames \ {ApiKeyName} |-> JsonEncode(c.env_vars[k])]]

RECURSIVE ImportEnv(_, _, _)
\* The loop of import_config over the variables names of the snapshot
ImportEnv(c, env, names) ==
    IF names = {} THEN c
    ELSE LET key == CHOOSE k \in names : TRUE IN
         ImportEnv(IF key # ApiKeyName
                   THEN set_env_var(c, key, PyStrOf(JsonDecode(env[key])))
                   ELSE c,
                   env, names \ {key})

\* import_config of a snapshot text
import_config(c, text) ==
    ImportEnv(SaveDocument([c EXCEPT !.document = NodeOfJson(text.config)]),
              text.env_vars, DOMAIN text.env_vars)

\* A snapshot written elsewhere, which holds an API key
ForeignSnapshot ==
    [kind |-> "json",
     config |-> JsonOfNode(PathDocument),
     env_vars |-> [k \in EnvNames |->
                      JsonEncode(IF k = "GESTURE_SENSITIVITY" THEN PyFloat(50)
                                 ELSE PyStr("sk-foreign"))]]

SetEnvVar ==
    /\ \E u \in EnvUpdates : cfg' = set_env_var(cfg, u[1], u[2])
    /\ obs' = [ObsInit EXCEPT !.op = "set_env_var"]
    /\ UNCHANGED <<now, detVars, running, camera, pcLoop, loc, pcGui, errq, gui, hist,
                   ai, workers>>

SnapshotUpdate == UpdateConfigIn({<<"screenshot", "mode">>})

ExportConfig ==
    /\ cfg' = [cfg EXCEPT !.snapshot = FileOf(export_config(cfg)),
                          !.exported = [own |-> TRUE, document |-> cfg.document,
                                        env_vars |-> cfg.env_vars]]
    /\ obs' = [ObsInit EXCEPT !.op = "export_config"]
    /\ UNCHANGED <<now, detVars, running, camera, pcLoop, loc, pcGui, errq, gui, hist,
                   ai, workers>>

\* A snapshot file written elsewhere is put in place
PlaceSnapshot ==
    /\ cfg' = [cfg EXCEPT !.snapshot = FileOf(ForeignSnapshot), !.exported.own = FALSE]
    /\ obs' = [ObsInit EXCEPT !.op = "place_snapshot"]
    /\ UNCHANGED <<now, detVars, running, camera, pcLoop, loc, pcGui, errq, gui, hist,
                   ai, workers>>

\* import_config of the snapshot file; a missing file makes it return False
ImportConfig ==
    /\ cfg' = IF cfg.snapshot.exists THEN import_config(cfg, cfg.snapshot.text) ELSE cfg
    /\ obs' = [ObsInit EXCEPT !.op = "import_config", !.cond = cfg.snapshot.exists,
                  !.pre = cfg.env_vars[ApiKeyName]]
    /\ UNCHANGED <<now, detVars, running, camera, pcLoop, loc, pcGui, errq, gui, hist,
                   ai, workers>>

\* Specification SpecSnapshot
InitSnapshot == InitOrch(FALSE)

NextSnapshot ==
    \/ SetEnvVar
    \/ SnapshotUpdate
    \/ ExportConfig
    \/ PlaceSnapshot
    \/ ImportConfig

SpecSnapshot == InitSnapshot /\ [][NextSnapshot]_vars

\* C23: snapshot round trip.  import_config of the snapshot written by
\* export_config restores the settings document and every environment
\* field but the API key to the values they had when the snapshot was
\* written, and no import changes the API key field.
C23_SnapshotRoundTrip ==
    (obs.op = "import_config" /\ obs.cond) =>
        /\ cfg.env_vars[ApiKeyName] = obs.pre
        /\ cfg.exported.own =>
              /\ cfg.document = cfg.exported.document
              /\ \A k \in EnvNames \ {ApiKeyName} :
                    /\ cfg.env_vars[k].type = cfg.exported.env_vars[k].type
                    /\ cfg.env_vars[k].v = cfg.exported.env_vars[k].v

\* The strings of a snapshot text: its variable names, the strings among
\* their values, and the strings stored in its settings document
RECURSIVE JsonStrings(_)
JsonStrings(j) ==
    CASE j.json = "string" -> {j.v}
      [] j.json = "object" ->
           DOMAIN j.members \cup UNION {JsonStrings(j.members[k]) : k \in DOMAIN j.members}
      [] OTHER -> {}

SnapshotStrings(text) ==
    JsonStrings(text.config)
    \cup UNION {JsonStrings(text.env_vars[k]) : k \in DOMAIN text.env_vars}

\* C24: API-key secrecy.  Whatever set_env_var, update_config and
\* import_config did before, the snapshot export_config writes holds
\* neither the API key field nor the value of the API key.
C24_ApiKeySecrecy ==
    (cfg.snapshot.exists /\ cfg.exported.own) =>
        /\ ApiKeyName \notin DOMAIN cfg.snapshot.text.env_vars
        /\ cfg.exported.env_vars[ApiKeyName].v # "" =>
              cfg.exported.env_vars[ApiKeyName].v \notin SnapshotStrings(cfg.snapshot.text)

\* C24 witness: a snapshot is exported while an API key is set, after an
\* import of a snapshot that held another key
C24_Witness ==
    /\ obs.op = "export_config"
    /\ cfg.env_vars[ApiKeyName].v \in Secrets
    /\ cfg.env_vars["ASSISTANT_ID"] = PyStr("sk-foreign")
-----------------------------------------------------------------------------
(* ScreenshotManager.cleanup_old_screenshots: the screenshot directory is  *)
(* a set of entries [name, isfile, mtime], mtime a clock reading in ticks. *)

\* 24 * 60 * 60 seconds, in ticks
DayTicks == 24 * 60 * 60 * 10

MaxCleanupDays == 2  \* days the clock runs past CleanupEpoch

\* The clock reading at which the cleanup runs start: ten days after the
\* moment 0, so that every modification time is a positive reading
CleanupEpoch == 10 * DayTicks

\* Faulty variant of cleanup_old_screenshots: a file as old as the cutoff is
\* removed as well
CleanupAtCutoff(entries, current_time, max_age_days) ==
    LET cutoff_time == current_time - (max_age_days * DayTicks) IN
    {e \in entries : ~(e.isfile /\ e.mtime <= cutoff_time)}

\* cleanup_old_screenshots(max_age_days) at clock reading current_time: the
\* entries left in the directory
cleanup_old_screenshots(entries, current_time, max_age_days) ==
    LET cutoff_time == current_time - (max_age_days * DayTicks) IN
    {e \in entries : ~(e.isfile /\ e.mtime < cutoff_time)}

\* The entries a directory is seeded with at clock reading t: files aged 6,
\* 7 and 8 days, files one tick younger and one tick older than 7 days, and
\* a subdirectory aged 8 days
SeedEntries(t) ==
    {[name |-> "fullscreen_6d.png", isfile |-> TRUE, mtime |-> t - 6 * DayTicks],
     [name |-> "fullscreen_7d_less.png", isfile |-> TRUE, mtime |-> t - 7 * DayTicks + 1],
     [name |-> "fullscreen_7d.png", isfile |-> TRUE, mtime |-> t - 7 * DayTicks],
     [name |-> "fullscreen_7d_more.png", isfile |-> TRUE, mtime |-> t - 7 * DayTicks - 1],
     [name |-> "window_Finder_8d.png", isfile |-> TRUE, mtime |-> t - 8 * DayTicks],
     [name |-> "archive", isfile |-> FALSE, mtime |-> t - 8 * DayTicks]}

CleanupDays == {0, 6, 7, 8}

\* _periodic_cleanup calling cleanup_old_screenshots(d)
CleanupOldScreenshots ==
    \E d \in CleanupDays :
        /\ cfg' = [cfg EXCEPT !.dir = cleanup_old_screenshots(cfg.dir, now, d)]
        /\ obs' = [ObsInit EXCEPT !.op = "cleanup_old_screenshots",
                      !.pre = [entries |-> cfg.dir, max_age_days |-> d,
                               current_time |-> now]]
        /\ UNCHANGED <<now, detVars, running, camera, pcLoop, loc, pcGui, errq, gui,
                       hist, ai, workers>>

\* a day passes between two cleanups
DayPasses ==
    /\ now + DayTicks <= CleanupEpoch + MaxCleanupDays * DayTicks
    /\ now' = now + DayTicks
    /\ obs' = [ObsInit EXCEPT !.op = "tick"]
    /\ UNCHANGED <<detVars, orchVars>>

\* Specification SpecCleanup: cleanups with several maximal ages on any
\* directory seeded at CleanupEpoch, days passing in between
InitCleanup ==
    /\ now = CleanupEpoch
    /\ profile = "extended"
    /\ det = DetInit
    /\ obs = ObsInit
    /\ track = TrackInit
    /\ feed = {}
    /\ running = FALSE
    /\ camera = "None"
    /\ pcLoop = "unstarted"
    /\ loc = [last_gesture_time |-> 0]
    /\ pcGui = "idle"
    /\ errq = <<>>
    /\ gui = [connected |-> FALSE, start_btn |-> "Start Detection"]
    /\ hist = HistInit
    /\ ai = AiInit
    /\ workers = [w \in WorkerIds |-> WorkerFree]
    /\ \E entries \in SUBSET SeedEntries(CleanupEpoch) :
          cfg = [CfgInit EXCEPT !.dir = entries]

NextCleanup ==
    \/ CleanupOldScreenshots
    \/ DayPasses

SpecCleanup == InitCleanup /\ [][NextCleanup]_vars

\* The age of an entry at the call, in ticks
AgeAtCall(e) == obs.pre.current_time - e.mtime

-----------------------------------------------------------------------------
(* ScreenshotManager.capture_*: what the OS does is held in cfg.screen:    *)
(* whether get_active_window_info finds a window, and what                 *)
(* CGWindowListCreateImage does for the window and for the whole screen:   *)
(* "image" (an image), "none" (no image), "raise" (an exception).          *)

ImageOutcomes == {"image", "none", "raise"}

Screens ==
    [window_info : BOOLEAN, window_image : ImageOutcomes, full_image : ImageOutcomes]

Formats == {"PNG", "JPEG"}

CaptureModes == {"fullscreen", "active_window", "region"}

\* The file a capture writes at clock reading t
ShotFile(filename, t) == [name |-> filename, isfile |-> TRUE, mtime |-> t]

\* The result of a capture: the value returned, the files written and
\* whether capture_fullscreen ran
CaptureResult(ret, written, fullscreen) ==
    [ret |-> ret, written |-> written, fullscreen |-> fullscreen]

\* capture_fullscreen(quality, format)
capture_fullscreen(screen, format, t) ==
    \* f"fullscreen_{timestamp}.{format.lower()}"
    LET filename == IF format = "PNG" THEN "fullscreen_T.png" ELSE "fullscreen_T.jpeg" IN
    CASE screen.full_image = "image" ->
           CaptureResult(PyStr(filename), {ShotFile(filename, t)}, TRUE)
      [] screen.full_image = "none" -> CaptureResult(PyNone, {}, TRUE)
      [] OTHER -> CaptureResult(PyNone, {}, TRUE)

\* capture_active_window(quality, format)
capture_active_window(screen, format, t) ==
    LET filename == IF format = "PNG" THEN "window_App_T.png" ELSE "window_App_T.jpeg" IN
    CASE ~screen.window_info -> capture_fullscreen(screen, format, t)
      [] screen.window_image = "image" ->
           CaptureResult(PyStr(filename), {ShotFile(filename, t)}, FALSE)
      [] screen.window_image = "none" -> CaptureResult(PyNone, {}, FALSE)
      [] OTHER -> capture_fullscreen(screen, format, t)

\* capture_screenshot(mode, format=...)
capture_screenshot(screen, mode, format, t) ==
    CASE mode = "fullscreen" -> capture_fullscreen(screen, format, t)
      [] mode = "active_window" -> capture_active_window(screen, format, t)
      [] OTHER -> capture_fullscreen(screen, format, t)

\* A call of capture_screenshot
CaptureScreenshot ==
    \E mode \in CaptureModes, format \in Formats :
        LET r == capture_screenshot(cfg.screen, mode, format, now) IN
        /\ cfg' = [cfg EXCEPT !.dir = @ \cup r.written]
        /\ obs' = [ObsInit EXCEPT !.op = "capture_screenshot",
                      !.pre = [mode |-> mode, format |-> format, entries |-> cfg.dir],
                      !.cond = r.fullscreen, !.ret = r.ret]
        /\ UNCHANGED <<now, detVars, running, camera, pcLoop, loc, pcGui, errq, gui,
                       hist, ai, workers>>

\* The user brings another window to the front, closes the last one, or
\* the OS starts or stops delivering images
ScreenChanges ==
    /\ \E screen \in Screens : cfg' = [cfg EXCEPT !.screen = screen]
    /\ obs' = [ObsInit EXCEPT !.op = "screen"]
    /\ UNCHANGED <<now, detVars, running, camera, pcLoop, loc, pcGui, errq, gui,
                   hist, ai, workers>>

\* Specification SpecCapture: captures in every mode and format on every
\* behaviour of the OS
InitCapture == InitOrch(FALSE)

NextCapture ==
    \/ CaptureScreenshot
    \/ ScreenChanges

SpecCapture == InitCapture /\ [][NextCapture]_vars

\* C26: capture_active_window runs capture_fullscreen whenever no active
\* window is found and whenever the window capture fails (the OS raises or
\* returns no image); it returns None only when the fullscreen capture
\* fails as well; an unrecognized mode is captured fullscreen.
C26_CaptureFallback ==
    obs.op = "capture_screenshot" =>
        /\ (/\ obs.pre.mode = "active_window"
            /\ \/ ~cfg.screen.window_info
               \/ cfg.screen.window_image # "image")
           => obs.cond
        /\ (obs.pre.mode = "active_window" /\ obs.ret.type = "NoneType")
           => cfg.screen.full_image # "image"
        /\ obs.pre.mode \notin {"fullscreen", "active_window"} =>
              /\ obs.cond
              /\ obs.ret.type = "str" <=> cfg.screen.full_image = "image"

-----------------------------------------------------------------------------
(* Startup validation: GestureAgentApp.__init__ constructs ConfigManager,  *)
(* which loads the settings file, and calls _validate_setup.               *)

\* A mapping with the one key bound to node, or the empty mapping when the
\* key is left out of the file (node is NoneOf)
Opt(key, node) == IF node = NoneOf THEN [k \in {} |-> NoneOf] ELSE key :> node

\* A settings document with or without each of the three validated values
StartupDocument(threshold, quality, mode) ==
    MapOf(("gestures" :> MapOf("wave" :> MapOf(Opt("confidence_threshold", threshold))))
          @@ ("screenshot" :> MapOf(Opt("quality", quality) @@ Opt("mode", mode))))

StartupThresholds == {NoneOf, IntOf(5), IntOf(80), StrOf("0.8")}

StartupQualities == {NoneOf, IntOf(90), IntOf(101), StrOf("90")}

StartupModes == {NoneOf, StrOf("fullscreen"), StrOf("window"), IntOf(1)}

\* 0.1 <= x <= 1.0 and 10 <= x <= 100 raise TypeError unless x is a number
Orderable(node) == node.kind = "int"

\* validate_config on any document: raise tells that a comparison raised
validate_config_raising(env_vars, document) ==
    LET sensitivity == get_config_value(document,
                           <<"gestures", "wave", "confidence_threshold">>, NoneOf).value
        quality == get_config_value(document, <<"screenshot", "quality">>, NoneOf).value
    IN  IF Orderable(sensitivity) /\ Orderable(quality)
        THEN [raise |-> FALSE, ok |-> validate_config(env_vars, document).ok,
              errors |-> validate_config(env_vars, document).errors]
        ELSE [raise |-> TRUE, ok |-> FALSE, errors |-> <<>>]

\* GestureAgentApp(): the settings file is loaded, then validated; an
\* exception of validate_config leaves __init__
ValidateSetup ==
    /\ cfg.phase = "new"
    /\ LET document == NodeOfJson(cfg.file.text.tree)
           env_vars == load_env_vars(cfg.environ)
           r == validate_config_raising(env_vars, document)
       IN  /\ cfg' = [cfg EXCEPT !.document = document, !.env_vars = env_vars,
                         !.phase = IF r.raise THEN "aborted" ELSE "loaded"]
           /\ obs' = [ObsInit EXCEPT !.op = "validate_setup", !.exc = r.raise,
                         !.cond = r.ok, !.ret = r.errors]
    /\ UNCHANGED <<now, detVars, running, camera, pcLoop, loc, pcGui, errq, gui, hist,
                   ai, workers>>

\* Specification SpecStartup: the application object is constructed over
\* any well-formed settings file
InitStartup ==
    /\ now = Epoch
    /\ profile = "extended"
    /\ det = DetInit
    /\ obs = ObsInit
    /\ track = TrackInit
    /\ feed = {}
    /\ running = FALSE
    /\ camera = "None"
    /\ pcLoop = "unstarted"
    /\ loc = [last_gesture_time |-> 0]
    /\ pcGui = "idle"
    /\ errq = <<>>
    /\ gui = [connected |-> FALSE, start_btn |-> "Start Detection"]
    /\ hist = HistInit
    /\ ai = AiInit
    /\ workers = [w \in WorkerIds |-> WorkerFree]
    /\ \E th \in StartupThresholds, q \in StartupQualities, m \in StartupModes,
          key \in ApiKeys :
          LET f == FileOf([kind |-> "json",
                           tree |-> JsonOfNode(StartupDocument(th, q, m))]) IN
          cfg = [CfgNew(f) EXCEPT
                    !.environ = [NoEnviron EXCEPT !["OPENAI_API_KEY"] = key]]

NextStartup == ValidateSetup

SpecStartup == InitStartup /\ [][NextStartup]_vars

\* C39: validate_config never raises: on every settings document loaded
\* from a well-formed settings file, also one that lacks the confidence
\* threshold, the quality or the mode, startup validation returns
\* (ok, problems).
C39_ValidateNeverRaises ==
    obs.op = "validate_setup" => (~obs.exc /\ cfg.phase = "loaded")

-----------------------------------------------------------------------------
(* The polling loop of send_message, step by step: ai.run is the status of *)
(* the run at the remote service, workers[w].status the run.status the     *)
(* caller read last.                                                       *)

\* time.sleep(1)
PollInterval == 10

\* Faulty variant of PollStatuses: a run being cancelled ends the loop
PollStatusesShort == {"queued", "in_progress"}

\* while run.status in ['queued', 'in_progress', 'cancelling']
PollStatuses == {"queued", "in_progress", "cancelling"}

\* The statuses a run stays in
RunEndStatuses == EndStatuses \cup {"cancelled"}

\* The statuses the remote service moves a run out of by itself
RunActiveStatuses == {"queued", "in_progress", "cancelling"}

\* A caller enters send_message while no other call is running
CallSendAlone ==
    /\ FreeWorkers = WorkerIds
    /\ CallSend

\* messages.create and runs.create: the run is queued at the remote service
SendSubmit(w) ==
    /\ workers[w].pc = "post"
    /\ \E rq \in Requests :
          IF rq.raise
          THEN /\ workers' = [workers EXCEPT ![w].pc = "return", ![w].ret = SendError(rq.e)]
               /\ obs' = [ObsInit EXCEPT !.op = "post", !.who = w, !.exc = TRUE]
               /\ UNCHANGED <<hist, ai>>
          ELSE /\ workers' = [workers EXCEPT ![w].pc = "test", ![w].status = "queued"]
               /\ ai' = [ai EXCEPT !.run = "queued"]
               /\ hist' = [hist EXCEPT !.submitted = @ \cup {workers[w].tid}]
               /\ obs' = [ObsInit EXCEPT !.op = "post", !.who = w]
    /\ UNCHANGED <<now, detVars, running, camera, pcLoop, loc, pcGui, errq, gui, cfg>>

\* The test of the while loop
PollTest(w) ==
    /\ workers[w].pc = "test"
    /\ workers' = [workers EXCEPT ![w].pc = IF workers[w].status \in PollStatuses
                                            THEN "sleep" ELSE "finish"]
    /\ obs' = [ObsInit EXCEPT !.op = "poll_test", !.who = w,
                  !.cond = workers[w].status \in PollStatuses]
    /\ UNCHANGED <<now, detVars, running, camera, pcLoop, loc, pcGui, errq, gui, hist, ai,
                   cfg>>

\* time.sleep(1); the clock of the model stands still once it reached its
\* bound, the loop goes on
PollSleep(w) ==
    /\ workers[w].pc = "sleep"
    /\ workers' = [workers EXCEPT ![w].pc = "retrieve"]
    /\ now' = IF now + PollInterval <= Epoch + MaxTime THEN now + PollInterval ELSE now
    /\ obs' = [ObsInit EXCEPT !.op = "poll_sleep", !.who = w]
    /\ UNCHANGED <<detVars, running, camera, pcLoop, loc, pcGui, errq, gui, hist, ai, cfg>>

\* run = runs.retrieve(...): the status of the run is read, or the request
\* raises and the except branch returns
PollRetrieve(w) ==
    /\ workers[w].pc = "retrieve"
    /\ \E rq \in Requests :
          IF rq.raise
          THEN /\ workers' = [workers EXCEPT ![w].pc = "return", ![w].ret = SendError(rq.e)]
               /\ obs' = [ObsInit EXCEPT !.op = "poll_retrieve", !.who = w, !.exc = TRUE]
          ELSE /\ workers' = [workers EXCEPT ![w].pc = "test", ![w].status = ai.run]
               /\ obs' = [ObsInit EXCEPT !.op = "poll_retrieve", !.who = w]
    /\ UNCHANGED <<now, detVars, running, camera, pcLoop, loc, pcGui, errq, gui, hist, ai,
                   cfg>>

\* After the loop: messages.list for a completed run, the error string for
\* any other status
PollFinish(w) ==
    /\ workers[w].pc = "finish"
    /\ \E o \in PollOutcomes :
          /\ \/ o.raise /\ workers[w].status = "completed"
             \/ ~o.raise /\ o.status = "completed" /\ workers[w].status = "completed"
             \/ ~o.raise /\ o.status = "failed" /\ workers[w].status # "completed"
          /\ LET r == IF o.raise THEN [ai |-> ai, ret |-> SendError(o.e)]
                      ELSE SendResult(ai, workers[w].content, workers[w].shot,
                                      workers[w].status, o.data, now)
             IN  /\ ai' = r.ai
                 /\ workers' = [workers EXCEPT ![w].pc = "return", ![w].ret = r.ret]
                 /\ obs' = [ObsInit EXCEPT !.op = "poll_finish", !.who = w,
                               !.exc = o.raise, !.ret = r.ret,
                               !.pre = ai.conversation_history]
    /\ UNCHANGED <<now, detVars, running, camera, pcLoop, loc, pcGui, errq, gui, hist, cfg>>

\* The remote service works on the run; it may also leave it as it is
RemoteStep ==
    /\ ai.run \in RunActiveStatuses
    /\ \E st \in RunActiveStatuses \cup RunEndStatuses :
          /\ \/ ai.run = "queued" /\ st \in {"in_progress", "cancelling"}
             \/ ai.run = "in_progress" /\ st \in EndStatuses \cup {"cancelling"}
             \/ ai.run = "cancelling" /\ st = "cancelled"
          /\ ai' = [ai EXCEPT !.run = st]
    /\ obs' = [ObsInit EXCEPT !.op = "remote"]
    /\ UNCHANGED <<now, detVars, running, camera, pcLoop, loc, pcGui, errq, gui, hist,
                   workers, cfg>>

\* Specification SpecPolling: send_message called up to MaxSends times, one
\* call at a time, against a remote service that works on the run at its
\* own pace or not at all
InitPolling == InitOrch(FALSE)

PollerStep(w) ==
    \/ SendGetThread(w)
    \/ SendCreateThread(w)
    \/ SendSubmit(w)
    \/ PollTest(w)
    \/ PollSleep(w)
    \/ PollRetrieve(w)
    \/ PollFinish(w)
    \/ SendReturn(w)

NextPolling ==
    \/ CallSendAlone
    \/ \E w \in WorkerIds : PollerStep(w)
    \/ RemoteStep

SpecPolling == InitPolling /\ [][NextPolling]_vars

\* Specification SpecPollingFair: SpecPolling where the calling thread is
\* scheduled; nothing is assumed about the remote service
SpecPollingFair ==
    /\ SpecPolling
    /\ \A w \in WorkerIds : WF_vars(PollerStep(w))

\* The calls that created a run and are in or past the polling loop
Polling(w) == workers[w].pc \in {"test", "sleep", "retrieve"}

\* The original statement of C32 about a run that stays in one of the three
\* statuses: a call that created a run returns only once the run has left
\* them
C32_ReturnsOnlyWhenEnded ==
    \A w \in WorkerIds :
        (workers[w].pc = "return" /\ workers[w].status # "") =>
            ai.run \notin {"queued", "in_progress", "cancelling"}

\* C32: send_message goes on polling while the status it read is queued,
\* in_progress or cancelling, and leaves the loop as soon as it read any
\* other status; it returns without having read another status only when a
\* request raised; once the run has reached another status the call
\* eventually returns.
C32_Polling ==
    /\ [](\A w \in WorkerIds :
             /\ workers[w].pc \in {"sleep", "retrieve"} =>
                    workers[w].status \in {"queued", "in_progress", "cancelling"}
             /\ workers[w].pc = "finish" =>
                    workers[w].status \notin {"queued", "in_progress", "cancelling"}
             /\ (workers[w].pc = "return" /\ workers[w].status # "") =>
                    \/ workers[w].status \notin {"queued", "in_progress", "cancelling"}
                    \/ workers[w].ret \in {SendError(e) : e \in RawErrors})
    /\ \A w \in WorkerIds :
          (Polling(w) /\ ai.run \notin {"queued", "in_progress", "cancelling"})
              ~> (workers[w].pc = "return")

\* a call polled a run that was still in progress, read its end status at a
\* later poll and returned the reply
C32_Witness ==
    \E w \in WorkerIds :
        /\ workers[w].pc = "return"
        /\ workers[w].status = "completed"
        /\ workers[w].ret.type = "str"
        /\ now >= Epoch + 2 * PollInterval

-----------------------------------------------------------------------------
(* GestureAgentCore._get_gesture_prompt.  A text is a sequence of pieces:  *)
(* the prefixes "left_" and "right_", the separator "+", gesture names and *)
(* the fixed pieces of the sentences; Text joins the pieces.               *)

RECURSIVE Text(_)
Text(pieces) == IF pieces = <<>> THEN "" ELSE Head(pieces) \o Text(Tail(pieces))

\* sub in text
Contains(text, sub) == \E i \in 1..Len(text) : text[i] = sub

\* text.startswith(sub)
StartsWith(text, sub) == text # <<>> /\ text[1] = sub

\* text.replace(sub, '')
Remove(text, sub) == SelectSeq(text, LAMBDA piece : piece # sub)

RECURSIVE SplitFrom(_, _, _)
\* text.split('+'): acc holds the parts closed so far and the open part
SplitFrom(text, acc, open) ==
    IF text = <<>> THEN Append(acc, open)
    ELSE IF Head(text) = "+" THEN SplitFrom(Tail(text), Append(acc, open), <<>>)
    ELSE SplitFrom(Tail(text), acc, Append(open, Head(text)))

Split(text) == SplitFrom(text, <<>>, <<>>)

\* The table of the single gestures
prompts ==
    [g \in {"wave", "palm_up", "thumbs_up", "peace_sign", "fist", "face_detected",
            "blink", "wink", "smile", "eyebrows_raised"} |->
        CASE g = "wave" ->
               "Hello! I just waved at you. Can you help me with what's currently on my screen?"
          [] g = "palm_up" ->
               "I'm holding my palm up to you. Please provide assistance based on what you can see on my screen."
          [] g = "thumbs_up" ->
               "I'm giving you a thumbs up! Can you analyze what's on my screen and provide positive feedback or suggestions?"
          [] g = "peace_sign" ->
               "I'm showing you a peace sign. Can you help me with what's on my screen in a friendly way?"
          [] g = "fist" ->
               "I'm making a fist gesture. Can you help me take action on what's currently displayed on my screen?"
          [] g = "face_detected" ->
               "I'm looking at the camera! Can you see me and help me with what's currently on my screen?"
          [] g = "blink" ->
               "I just blinked deliberately at the camera! Can you help me with what's on my screen quickly?"
          [] g = "wink" ->
               "I winked at you! Can you give me a quick tip or insight about what's currently on my screen?"
          [] g = "smile" ->
               "I'm smiling at the camera! Can you help me with what's on my screen in a positive and encouraging way?"
          [] g = "eyebrows_raised" ->
               "I raised my eyebrows at the camera! Can you help me understand or explain what's currently on my screen?"]

FallbackPrompt == "I performed a gesture. Please help me with my current screen."

\* The single-gesture part of _get_gesture_prompt
SinglePrompt(gesture_type) ==
    IF StartsWith(gesture_type, "left_")
    THEN <<"I'm doing a ">> \o Remove(gesture_type, "left_")
            \o <<" with my left hand! Can you help me with what's currently on my screen?">>
    ELSE IF StartsWith(gesture_type, "right_")
    THEN <<"I'm doing a ">> \o Remove(gesture_type, "right_")
            \o <<" with my right hand! Can you help me with what's currently on my screen?">>
    ELSE IF Len(gesture_type) = 1 /\ gesture_type[1] \in DOMAIN prompts
    THEN <<prompts[gesture_type[1]]>>
    ELSE <<FallbackPrompt>>

\* Faulty variant of GesturePrompt: the hand prefix is tested before the
\* label is split
PromptHandFirst(gesture_type) == SinglePrompt(gesture_type)

\* _get_gesture_prompt(gesture_type), the prompt as a sequence of pieces
GesturePrompt(gesture_type) ==
    LET parts == Split(gesture_type) IN
    IF Contains(gesture_type, "+") /\ Len(parts) = 3
    THEN <<"I'm doing a ">> \o parts[1] \o <<", ">> \o parts[2] \o <<", and ">> \o parts[3]
            \o <<" simultaneously! Can you help me with what's on my screen based on this complex combination?">>
    ELSE IF Contains(gesture_type, "+") /\ Len(parts) = 2
    THEN IF Contains(parts[1], "left_") /\ Contains(parts[2], "right_")
         THEN <<"I'm doing a ">> \o Remove(parts[1], "left_")
                 \o <<" with my left hand and a ">> \o Remove(parts[2], "right_")
                 \o <<" with my right hand simultaneously! Can you help me with what's on my screen based on this two-handed gesture?">>
         ELSE IF Contains(parts[1], "left_")
         THEN <<"I'm doing a ">> \o Remove(parts[1], "left_")
                 \o <<" with my left hand and a ">> \o parts[2]
                 \o <<" with my face! Can you help me with what's on my screen based on this combination?">>
         ELSE IF Contains(parts[1], "right_")
         THEN <<"I'm doing a ">> \o Remove(parts[1], "right_")
                 \o <<" with my right hand and a ">> \o parts[2]
                 \o <<" with my face! Can you help me with what's on my screen based on this combination?">>
         ELSE <<"I'm doing both a ">> \o parts[1] \o <<" and a ">> \o parts[2]
                 \o <<"! Can you help me with what's on my screen based on this combination?">>
    ELSE SinglePrompt(gesture_type)

\* The names a part of a label can hold: the gestures of the engine and a
\* name the table does not know
TableNames == DOMAIN prompts

ShapeNames == {"wave", "fist", "smile", "blink", "nod"}

Prefixes == {"", "left_", "right_"}

\* The pieces of the part prefix + name
PartOf(prefix, name) == IF prefix = "" THEN <<name>> ELSE <<prefix, name>>

RECURSIVE JoinParts(_)
\* '+'.join(parts)
JoinParts(parts) ==
    IF Len(parts) = 1 THEN PartOf(parts[1].prefix, parts[1].name)
    ELSE PartOf(parts[1].prefix, parts[1].name) \o <<"+">> \o JoinParts(Tail(parts))

\* The labels of one to three parts
Shapes ==
    {<<[prefix |-> p, name |-> n]>> : p \in Prefixes, n \in TableNames \cup ShapeNames}
    \cup UNION {[1..k -> [prefix : Prefixes, name : ShapeNames]] : k \in 2..3}

\* The label process_frame composes, as pieces
EnginePieces(L, R, F) ==
    JoinParts(SelectSeq(<<[prefix |-> "left_", name |-> L],
                          [prefix |-> "right_", name |-> R],
                          [prefix |-> "", name |-> F]>>,
                        LAMBDA part : part.name # Absent))

EngineHands == {Absent, "wave", "palm_up", "thumbs_up", "peace_sign", "fist"}

EngineFaces == {Absent, "blink", "wink", "smile", "eyebrows_raised", "face_detected"}

\* _get_gesture_prompt on the label that was drawn
PromptOfShape ==
    /\ obs.op = "label"
    /\ obs' = [obs EXCEPT !.op = "get_gesture_prompt",
                  !.label = Text(JoinParts(obs.pre)),
                  !.ret = PyStr(Text(GesturePrompt(JoinParts(obs.pre))))]
    /\ UNCHANGED <<now, detVars, orchVars>>

\* process_frame composes the label from what fired, and
\* _get_gesture_prompt is applied to it
PromptOfEngine ==
    /\ obs.op = "fired"
    /\ obs' = [obs EXCEPT !.op = "engine_prompt",
                  !.label = ComposeLabel(obs.left, obs.right, obs.face),
                  !.pre = EnginePieces(obs.left, obs.right, obs.face),
                  !.ret = PyStr(Text(GesturePrompt(
                              EnginePieces(obs.left, obs.right, obs.face))))]
    /\ UNCHANGED <<now, detVars, orchVars>>

\* Specification SpecPrompt: _get_gesture_prompt applied to any label of
\* one to three parts, or to the label the engine composes from any
\* gestures that fired
InitPrompt ==
    /\ now = Epoch
    /\ profile = "extended"
    /\ det = DetInit
    /\ track = TrackInit
    /\ feed = {}
    /\ OrchIdle
    /\ \/ \E parts \in Shapes : obs = [ObsInit EXCEPT !.op = "label", !.pre = parts]
       \/ \E L \in EngineHands, R \in EngineHands, F \in EngineFaces :
             /\ <<L, R, F>> # <<Absent, Absent, Absent>>
             /\ obs = [ObsInit EXCEPT !.op = "fired", !.left = L, !.right = R, !.face = F]

NextPrompt ==
    \/ PromptOfShape
    \/ PromptOfEngine

SpecPrompt == InitPrompt /\ [][NextPrompt]_vars

\* The text of a part
PartText(part) == part.prefix \o part.name

\* C38: the prompt is determined by the shape of the label: three parts
\* give the sentence naming all three; two parts give the two-hand sentence
\* for left_X+right_Y, the hand-plus-face sentence when the first part is
\* prefixed left_ or right_, else the generic two-gesture sentence; a single
\* prefixed label gives the sentence of that hand, a bare name of the table
\* its table sentence, anything else the fallback; no label the engine
\* composes gives the fallback.
C38_PromptByShape ==
    /\ obs.op = "get_gesture_prompt" =>
          LET p == obs.pre IN
          obs.ret.v =
            CASE Len(p) = 3 ->
                   "I'm doing a " \o PartText(p[1]) \o ", " \o PartText(p[2]) \o ", and "
                     \o PartText(p[3])
                     \o " simultaneously! Can you help me with what's on my screen based on this complex combination?"
              [] Len(p) = 2 /\ p[1].prefix = "left_" /\ p[2].prefix = "right_" ->
                   "I'm doing a " \o p[1].name \o " with my left hand and a " \o p[2].name
                     \o " with my right hand simultaneously! Can you help me with what's on my screen based on this two-handed gesture?"
              [] Len(p) = 2 /\ p[1].prefix # "" /\ ~(p[1].prefix = "left_" /\ p[2].prefix = "right_") ->
                   "I'm doing a " \o p[1].name \o " with my "
                     \o (IF p[1].prefix = "left_" THEN "left" ELSE "right")
                     \o " hand and a " \o PartText(p[2])
                     \o " with my face! Can you help me with what's on my screen based on this combination?"
              [] Len(p) = 2 /\ p[1].prefix = "" ->
                   "I'm doing both a " \o PartText(p[1]) \o " and a " \o PartText(p[2])
                     \o "! Can you help me with what's on my screen based on this combination?"
              [] Len(p) = 1 /\ p[1].prefix # "" ->
                   "I'm doing a " \o p[1].name \o " with my "
                     \o (IF p[1].prefix = "left_" THEN "left" ELSE "right")
                     \o " hand! Can you help me with what's currently on my screen?"
              [] Len(p) = 1 /\ p[1].prefix = "" /\ p[1].name \in TableNames ->
                   prompts[p[1].name]
              [] OTHER -> FallbackPrompt
    /\ obs.op = "engine_prompt" =>
          /\ Text(obs.pre) = obs.label
          /\ obs.ret.v # FallbackPrompt

\* the prompt of the label left_fist+right_wave+smile the engine composed
\* names the three parts
C38_Witness ==
    /\ obs.op = "engine_prompt"
    /\ obs.label = "left_fist+right_wave+smile"
    /\ obs.ret.v = "I'm doing a left_fist, right_wave, and smile simultaneously! Can you help me with what's on my screen based on this complex combination?"

-----------------------------------------------------------------------------
(* Two hands held still: the camera delivers the same frame throughout.    *)

StillXs == {20, 30, 40, 50, 60}

\* The scenes of two hands that do not move, fingers up
StillScenes ==
    {{MkFrame(TwoHands(a, b), NoFace)} :
        a \in {PalmPose(x) : x \in StillXs}, b \in {PalmPose(x) : x \in StillXs}}

\* Specification SpecStill: the extended engine is fed one and the same
\* frame of two hands
InitStill ==
    /\ now = Epoch
    /\ profile = "extended"
    /\ feed \in StillScenes
    /\ det = DetInit
    /\ obs = ObsInit
    /\ track = TrackInit
    /\ OrchIdle

NextStill == FrameExtended

SpecStill == InitStill /\ [][NextStill]_vars

\* C31: a wave needs the motion of one hand: while both hands are held
\* still with their fingers up, no hand is seen waving.
C31_StillHandsNoWave ==
    obs.op = "frame" => (obs.left # "wave" /\ obs.right # "wave")

-----------------------------------------------------------------------------
(* The start button and the state of the orchestrator *)

\* C34: start/stop button consistency.  Once the GUI thread has run every
\* pending handler, the button reads "Stop Detection" exactly when the
\* orchestrator is running and "Start Detection" exactly when it is idle.
C34_ButtonConsistent ==
    (pcGui = "idle" /\ errq = <<>>) =>
        /\ gui.start_btn = "Stop Detection" <=> running
        /\ gui.start_btn = "Start Detection" <=> ~running

-----------------------------------------------------------------------------
(* The main window: the status line, the AI-status chip and the slots of   *)
(* GestureAgentApp that write them.  gui.events holds, in the order of     *)
(* their emission, the signals of the other threads queued to the GUI      *)
(* thread, which runs their slots first in, first out; gui.timers holds    *)
(* the times at which the single-shot timers armed by _on_gesture_detected *)
(* are due.                                                                *)

StatusInitializing == "Status: Initializing..."

StatusRunning == "Status: Running - Watching for gestures..."

StatusStopped == "Status: Stopped"

StatusError(error_message) == "Status: Error - " \o error_message

StatusGesture(gesture_type) == "Status: Gesture detected - " \o gesture_type

\* QTimer.singleShot(3000, ...)
StatusRestoreDelay == 30

WindowSteps == {15}

\* A signal queued to the GUI thread
GuiEvent(kind, text, who) == [kind |-> kind, text |-> text, who |-> who]

\* The next slot the GUI thread runs is one of signal kind
NextEvent(kind) ==
    /\ pcGui = "idle"
    /\ gui.events # <<>>
    /\ Head(gui.events).kind = kind

\* MainWindow.toggle_detection with the status line
toggle_detection_window(g) ==
    [toggle_detection(g) EXCEPT
        !.status = IF g.start_btn = "Start Detection" THEN StatusRunning
                   ELSE StatusStopped]

\* A click on the start button: MainWindow.toggle_detection, then
\* GestureAgentApp._toggle_detection; the errors start_detection emits from
\* the GUI thread run _on_error at once
WindowClick ==
    /\ pcGui = "idle"
    /\ IF running
       THEN /\ running' = FALSE
            /\ pcGui' = "toggle_wait"
            /\ gui' = toggle_detection_window(gui)
            /\ obs' = [ObsInit EXCEPT !.op = "toggle", !.wasRunning = TRUE,
                          !.pre = CoreState]
            /\ UNCHANGED <<camera, pcLoop>>
       ELSE \E opened \in BOOLEAN :
               LET r == start_detection(opened) IN
               /\ running' = r.running
               /\ camera' = r.camera
               /\ pcLoop' = r.pcLoop
               /\ gui' = [toggle_detection_window(gui) EXCEPT
                             !.start_btn = "Stop Detection", !.status = StatusRunning]
               /\ obs' = [ObsInit EXCEPT !.op = "toggle", !.opened = opened,
                             !.pre = CoreState, !.emitted = r.emitted]
               /\ UNCHANGED pcGui
    /\ UNCHANGED <<now, detVars, svcVars, loc, errq, hist>>

\* The rest of stop_detection, then what _toggle_detection and _on_error
\* write after it
WindowStopWait ==
    /\ pcGui \in {"toggle_wait", "on_error_wait"}
    /\ ThreadFinished
    /\ camera' = "None"
    /\ gui' = IF pcGui = "toggle_wait"
              THEN [gui EXCEPT !.start_btn = "Start Detection", !.status = StatusStopped]
              ELSE [gui EXCEPT !.start_btn = "Start Detection"]
    /\ pcGui' = "idle"
    /\ obs' = [ObsInit EXCEPT !.op = pcGui, !.pre = CoreState]
    /\ UNCHANGED <<now, detVars, svcVars, running, pcLoop, loc, errq, hist>>

\* _on_error run by the GUI thread for a queued error_occurred
WindowOnError ==
    /\ NextEvent("error_occurred")
    /\ gui' = [gui EXCEPT !.events = Tail(@),
                          !.status = StatusError(Head(gui.events).text)]
    /\ running' = FALSE
    /\ pcGui' = IF running THEN "on_error_wait" ELSE "idle"
    /\ obs' = [ObsInit EXCEPT !.op = "on_error", !.wasRunning = running,
                  !.pre = CoreState]
    /\ UNCHANGED <<now, detVars, svcVars, camera, pcLoop, loc, errq, hist>>

\* _on_gesture_detected run by the GUI thread for a queued gesture_detected
OnGestureDetected ==
    /\ NextEvent("gesture_detected")
    /\ gui' = [gui EXCEPT !.events = Tail(@),
                          !.status = StatusGesture(Head(gui.events).text),
                          !.chip = "AI: Processing",
                          !.timers = @ \cup {now + StatusRestoreDelay}]
    /\ obs' = [ObsInit EXCEPT !.op = "on_gesture_detected", !.wasRunning = running,
                  !.label = Head(gui.events).text]
    /\ UNCHANGED <<now, detVars, svcVars, running, camera, pcLoop, loc, pcGui, errq, hist>>

\* A single-shot timer armed by _on_gesture_detected fires
StatusRestore ==
    /\ pcGui = "idle"
    /\ \E due \in gui.timers :
          /\ due <= now
          /\ gui' = [gui EXCEPT !.status = StatusRunning, !.timers = @ \ {due}]
    /\ obs' = [ObsInit EXCEPT !.op = "status_restore", !.wasRunning = running]
    /\ UNCHANGED <<now, detVars, svcVars, running, camera, pcLoop, loc, pcGui, errq, hist>>

\* MainWindow.show_response run by the GUI thread for a queued
\* ai_response_received: the chip and the popup
WindowShowResponse(w) ==
    /\ NextEvent("ai_response_received")
    /\ Head(gui.events).who = w
    /\ workers[w].pc = "queued"
    /\ workers' = [workers EXCEPT ![w] = WorkerFree]
    /\ gui' = [gui EXCEPT !.events = Tail(@), !.chip = "AI: Ready"]
    /\ hist' = [hist EXCEPT !.popups = @ \cup {workers[w].ret.v}]
    /\ obs' = [ObsInit EXCEPT !.op = "show_response", !.who = w, !.ret = workers[w].ret]
    /\ UNCHANGED <<now, detVars, running, camera, pcLoop, loc, pcGui, errq, ai, cfg>>

\* What one pass of the loop body meets in front of the window
WindowOutcomes ==
    {o \in LoopOutcomes : o.left = Absent}

\* The rest of the loop body with gesture_detected.emit before
\* _handle_gesture
WindowLoopProcess ==
    /\ pcLoop = "process"
    /\ \E o \in WindowOutcomes :
          IF o.raise
          THEN /\ Len(gui.events) < MaxErrors
               /\ pcLoop' = "done"
               /\ gui' = [gui EXCEPT !.events =
                             Append(@, GuiEvent("error_occurred",
                                                handle_gesture_detection_error, 0))]
               /\ obs' = [ObsInit EXCEPT !.op = "loop", !.exc = TRUE,
                             !.wasRunning = running,
                             !.emitted = <<handle_gesture_detection_error>>]
               /\ UNCHANGED <<det, loc, workers>>
          ELSE LET r == EngineGate(det, o.left, o.right, o.face, now)
                   dispatch == OuterGate(r.label, loc.last_gesture_time, now)
               IN  /\ pcLoop' = "test"
                   /\ det' = r.d
                   /\ loc' = IF dispatch THEN [loc EXCEPT !.last_gesture_time = now]
                             ELSE loc
                   /\ gui' = IF dispatch
                             THEN [gui EXCEPT !.events =
                                     Append(@, GuiEvent("gesture_detected", r.label, 0))]
                             ELSE gui
                   /\ obs' = [ObsInit EXCEPT !.op = "loop", !.label = r.label,
                                 !.elapsed = r.elapsed, !.face = o.face,
                                 !.wasRunning = running, !.dispatched = dispatch]
                   /\ dispatch => (FreeWorkers # {} /\ Len(gui.events) < MaxErrors)
                   /\ workers' = IF dispatch
                                  THEN [workers EXCEPT ![NextWorker] =
                                          handle_gesture(r.label)]
                                  ELSE workers
    /\ UNCHANGED <<now, profile, track, feed, running, camera, pcGui, errq, hist, ai, cfg>>

\* What send_message returned to _capture_screenshot_async
ExchangeReplies == {PyStr("Sure."), SendError("Connection error."), PyNone}

\* _capture_screenshot_async from the capture to the emission: a str is
\* queued to show_response; None is refused by the str signal and the
\* except branch emits the sentence of handle_generic_error
Exchange(w) ==
    /\ workers[w].pc = "capture"
    /\ Len(gui.events) < MaxErrors
    /\ \E response \in ExchangeReplies :
          IF response.type = "str"
          THEN /\ workers' = [workers EXCEPT ![w].pc = "queued", ![w].ret = response]
               /\ gui' = [gui EXCEPT !.events =
                             Append(@, GuiEvent("ai_response_received", response.v, w))]
               /\ obs' = [ObsInit EXCEPT !.op = "publish", !.who = w, !.ret = response]
          ELSE /\ workers' = [workers EXCEPT ![w] = WorkerFree]
               /\ gui' = [gui EXCEPT !.events =
                             Append(@, GuiEvent("error_occurred",
                                                handle_generic_error_async, 0))]
               /\ obs' = [ObsInit EXCEPT !.op = "publish", !.who = w, !.exc = TRUE,
                             !.ret = response,
                             !.emitted = <<handle_generic_error_async>>]
    /\ UNCHANGED <<now, detVars, running, camera, pcLoop, loc, pcGui, errq, hist, ai, cfg>>

WindowWait ==
    \E dt \in WindowSteps :
        /\ now + dt <= Epoch + MaxTime
        /\ now' = now + dt
        /\ obs' = [ObsInit EXCEPT !.op = "tick"]
        /\ UNCHANGED <<detVars, orchVars>>

\* Specification SpecWindow: the application with its window shown, the
\* user clicking the start button, the loop thread, the background threads
\* and the slots and timers of the GUI thread
InitWindow ==
    /\ now = Epoch
    /\ profile = "extended"
    /\ det = DetInit
    /\ obs = ObsInit
    /\ track = TrackInit
    /\ feed = {}
    /\ running = FALSE
    /\ camera = "None"
    /\ pcLoop = "unstarted"
    /\ loc = [last_gesture_time |-> 0]
    /\ pcGui = "idle"
    /\ errq = <<>>
    /\ gui = [connected |-> TRUE, start_btn |-> "Start Detection",
              status |-> StatusInitializing, chip |-> "AI: Ready",
              events |-> <<>>, timers |-> {}]
    /\ hist = HistInit
    /\ ai = AiInit
    /\ workers = [w \in WorkerIds |-> WorkerFree]
    /\ cfg = CfgInit

GuiThreadStep ==
    \/ WindowStopWait
    \/ WindowOnError
    \/ OnGestureDetected
    \/ StatusRestore
    \/ \E w \in WorkerIds : WindowShowResponse(w)

LoopThreadStep ==
    \/ LoopEnter
    \/ LoopTest
    \/ LoopRead
    \/ WindowLoopProcess

NextWindow ==
    \/ WindowClick
    \/ GuiThreadStep
    \/ LoopThreadStep
    \/ \E w \in WorkerIds : Exchange(w)
    \/ WindowWait

SpecWindow == InitWindow /\ [][NextWindow]_vars

\* Specification SpecWindowFair: SpecWindow where the GUI thread runs what
\* is queued to it and every started thread is scheduled
SpecWindowFair ==
    /\ SpecWindow
    /\ WF_vars(GuiThreadStep)
    /\ WF_vars(LoopThreadStep)
    /\ \A w \in WorkerIds : WF_vars(Exchange(w))

\* C33: AI-status chip liveness.  Whenever the chip shows "processing" and
\* no exchange is in flight, it eventually shows "ready" again.
C33_ChipReadyAgain ==
    (gui.chip = "AI: Processing" /\ InFlight = {}) ~> (gui.chip = "AI: Ready")

\* C35: status line consistency.  Whenever the GUI thread is idle, the
\* status line shows the Running text only while the orchestrator is
\* running.
C35_RunningTextOnlyWhileRunning ==
    (pcGui = "idle" /\ gui.status = StatusRunning) => running

-----------------------------------------------------------------------------
(* Compact mode of the main window.  In SpecCompact gui holds the fields   *)
(* of MainWindow that the compact-mode handlers read and write; positions  *)
(* are cells of a small screen grid, pos the top-left cell of the window.  *)

MaxX == 3

MaxY == 1

ScreenCells == [x : 0 .. MaxX, y : 0 .. MaxY]

\* The cell the window manager gives the window when it is first shown
FirstCell == [x |-> 1, y |-> 1]

\* move_to_top_right
move_to_top_right(g) == [g EXCEPT !.pos = [x |-> MaxX, y |-> 0]]

\* switch_to_compact_mode
switch_to_compact_mode(g) ==
    move_to_top_right([g EXCEPT !.is_compact_mode = TRUE,
                                !.size = "compact_size",
                                !.buttons = "hidden",
                                !.compact_action = "Normal Mode",
                                !.visible = TRUE])

\* switch_to_normal_mode
switch_to_normal_mode(g) ==
    [g EXCEPT !.is_compact_mode = FALSE,
              !.size = "normal_size",
              !.buttons = "shown",
              !.compact_btn = "Compact Mode",
              !.visible = TRUE]

\* toggle_compact_mode
toggle_compact_mode(g) ==
    IF g.is_compact_mode THEN switch_to_normal_mode(g)
    ELSE switch_to_compact_mode(g)

\* compact_btn.clicked: the button can be clicked while it is shown
CompactButtonClicked ==
    /\ gui.visible
    /\ gui.buttons = "shown"
    /\ gui' = toggle_compact_mode(gui)
    /\ obs' = [ObsInit EXCEPT !.op = "compact_btn"]
    /\ UNCHANGED <<now, detVars, svcVars, running, camera, pcLoop, loc, pcGui, errq, hist>>

\* compact_action.triggered: the item of the tray menu
CompactActionTriggered ==
    /\ gui' = toggle_compact_mode(gui)
    /\ obs' = [ObsInit EXCEPT !.op = "compact_action"]
    /\ UNCHANGED <<now, detVars, svcVars, running, camera, pcLoop, loc, pcGui, errq, hist>>

MouseButtons == {"LeftButton", "RightButton"}

\* mousePressEvent at globalPos, a cell of the window
MousePressEvent ==
    /\ gui.visible
    /\ \E button \in MouseButtons, globalPos \in ScreenCells :
          /\ globalPos.y = gui.pos.y
          /\ globalPos.x \in {gui.pos.x, gui.pos.x + 1}
          /\ gui' = IF gui.is_compact_mode
                    THEN IF button = "LeftButton"
                         THEN [gui EXCEPT !.drag_position =
                                              [x |-> globalPos.x - gui.pos.x,
                                               y |-> globalPos.y - gui.pos.y],
                                          !.dragging = TRUE]
                         ELSE switch_to_normal_mode(gui)
                    ELSE gui
          /\ obs' = [ObsInit EXCEPT !.op = "mouse_press", !.label = button]
    /\ UNCHANGED <<now, detVars, svcVars, running, camera, pcLoop, loc, pcGui, errq, hist>>

\* mouseMoveEvent at globalPos while the left button is held
MouseMoveEvent ==
    /\ gui.visible
    /\ gui.dragging
    /\ \E globalPos \in ScreenCells :
          LET to == [x |-> globalPos.x - gui.drag_position.x,
                     y |-> globalPos.y - gui.drag_position.y]
          IN  /\ to \in ScreenCells
              /\ gui' = IF gui.is_compact_mode THEN [gui EXCEPT !.pos = to] ELSE gui
    /\ obs' = [ObsInit EXCEPT !.op = "mouse_move"]
    /\ UNCHANGED <<now, detVars, svcVars, running, camera, pcLoop, loc, pcGui, errq, hist>>

\* mouseReleaseEvent
MouseReleaseEvent ==
    /\ gui.visible
    /\ gui.dragging
    /\ gui' = IF gui.is_compact_mode THEN [gui EXCEPT !.dragging = FALSE] ELSE gui
    /\ obs' = [ObsInit EXCEPT !.op = "mouse_release"]
    /\ UNCHANGED <<now, detVars, svcVars, running, camera, pcLoop, loc, pcGui, errq, hist>>

\* closeEvent: the window hides to the tray
CloseEvent ==
    /\ gui.visible
    /\ gui' = [gui EXCEPT !.visible = FALSE]
    /\ obs' = [ObsInit EXCEPT !.op = "close"]
    /\ UNCHANGED <<now, detVars, svcVars, running, camera, pcLoop, loc, pcGui, errq, hist>>

\* show_action.triggered and the double click on the tray icon
ShowWindow ==
    /\ ~gui.visible
    /\ gui' = [gui EXCEPT !.visible = TRUE]
    /\ obs' = [ObsInit EXCEPT !.op = "show"]
    /\ UNCHANGED <<now, detVars, svcVars, running, camera, pcLoop, loc, pcGui, errq, hist>>

\* Specification SpecCompact: the window after window.show() in run(), and
\* the user's clicks, drags and tray-menu choices.  drag_position has no
\* value before the first press of the left button; it is read only while
\* dragging, which that press sets.
InitCompact ==
    /\ now = Epoch
    /\ profile = "extended"
    /\ det = DetInit
    /\ obs = ObsInit
    /\ track = TrackInit
    /\ feed = {}
    /\ running = FALSE
    /\ camera = "None"
    /\ pcLoop = "unstarted"
    /\ loc = [last_gesture_time |-> 0]
    /\ pcGui = "idle"
    /\ errq = <<>>
    /\ gui = [is_compact_mode |-> FALSE, size |-> "normal_size",
              buttons |-> "shown", compact_btn |-> "Compact Mode",
              compact_action |-> "Compact Mode", visible |-> TRUE,
              pos |-> FirstCell, dragging |-> FALSE,
              drag_position |-> [x |-> 0, y |-> 0]]
    /\ hist = HistInit
    /\ ai = AiInit
    /\ workers = [w \in WorkerIds |-> WorkerFree]
    /\ cfg = CfgInit

NextCompact ==
    \/ CompactButtonClicked
    \/ CompactActionTriggered
    \/ MousePressEvent
    \/ MouseMoveEvent
    \/ MouseReleaseEvent
    \/ CloseEvent
    \/ ShowWindow

SpecCompact == InitCompact /\ [][NextCompact]_vars

\* C36: compact-mode label.  In every reachable state the tray-menu item
\* reads "Normal Mode" exactly when the window is in compact mode and
\* "Compact Mode" exactly when it is in normal mode.
C36_TrayLabel ==
    /\ gui.compact_action = "Normal Mode" <=> gui.is_compact_mode
    /\ gui.compact_action = "Compact Mode" <=> ~gui.is_compact_mode

-----------------------------------------------------------------------------
(* The named logger.  In SpecLogging cfg holds the system.log_level        *)
(* setting, the state of logging.getLogger("GestureAgent") (its level and  *)
(* its handlers, each a sink with a level), the number of logger objects   *)
(* constructed, who constructed the last one, and per sink the levels of   *)
(* the messages written to it.                                             *)

MaxLoggers == 4

\* The numeric levels of the logging module
LevelNo ==
    [DEBUG |-> 10, INFO |-> 20, WARNING |-> 30, ERROR |-> 40, CRITICAL |-> 50]

LevelNames == DOMAIN LevelNo

\* str.upper on the level names a settings file holds
Upper(s) ==
    CASE s = "debug" -> "DEBUG"
      [] s = "warning" -> "WARNING"
      [] s = "verbose" -> "VERBOSE"
      [] OTHER -> s

LogLevelSettings ==
    {PyNone} \cup {PyStr(s) : s \in LevelNames \cup {"debug", "warning", "verbose"}}

\* getattr(logging, log_level.upper(), logging.INFO)
LevelOf(log_level) ==
    IF Upper(log_level) \in LevelNames THEN LevelNo[Upper(log_level)]
    ELSE LevelNo["INFO"]

\* _setup_handlers, run when the named logger has no handler
setup_handlers(lg, log_level) ==
    IF lg.handlers # <<>> THEN lg
    ELSE [lg EXCEPT !.handlers = <<[sink |-> "general", level |-> log_level],
                                   [sink |-> "console", level |-> LevelNo["WARNING"]],
                                   [sink |-> "errors", level |-> LevelNo["ERROR"]]>>]

\* GestureAgentLogger.__init__ on the named logger lg
GestureAgentLogger(lg, log_level) ==
    setup_handlers([lg EXCEPT !.level = LevelOf(log_level)], LevelOf(log_level))

\* The sinks a message of level no reaches: Logger.isEnabledFor, then the
\* level of each handler
Written(lg, no) ==
    IF no < lg.level THEN {}
    ELSE {lg.handlers[i].sink : i \in {j \in DOMAIN lg.handlers : no >= lg.handlers[j].level}}

\* GestureAgentApp.__init__: the coordinator constructs the logger with the
\* default level
ConstructApp ==
    /\ cfg.phase = "new"
    /\ cfg' = [cfg EXCEPT !.phase = "app", !.objects = @ + 1, !.last = "app",
                          !.logger = GestureAgentLogger(cfg.logger, "INFO")]
    /\ obs' = [ObsInit EXCEPT !.op = "construct", !.label = "app"]
    /\ UNCHANGED <<now, detVars, running, camera, pcLoop, loc, pcGui, errq, gui, hist,
                   ai, workers>>

\* GestureAgentCore.__init__: the orchestrator constructs the logger with
\* get_config_value('system.log_level', 'INFO')
ConstructCore ==
    /\ cfg.phase = "app"
    /\ LET log_level == IF cfg.log_level = PyNone THEN "INFO" ELSE cfg.log_level.v IN
       cfg' = [cfg EXCEPT !.phase = "core", !.objects = @ + 1, !.last = "core",
                          !.logger = GestureAgentLogger(cfg.logger, log_level)]
    /\ obs' = [ObsInit EXCEPT !.op = "construct", !.label = "core"]
    /\ UNCHANGED <<now, detVars, running, camera, pcLoop, loc, pcGui, errq, gui, hist,
                   ai, workers>>

\* handle_exception: the hook for uncaught exceptions constructs a logger
\* with the default level and logs at CRITICAL
HandleException ==
    /\ cfg.phase # "new"
    /\ cfg.objects < MaxLoggers
    /\ LET lg == GestureAgentLogger(cfg.logger, "INFO")
           to == Written(lg, LevelNo["CRITICAL"])
       IN  /\ cfg' = [cfg EXCEPT !.objects = @ + 1, !.last = "hook", !.logger = lg,
                                 !.sinks = [s \in DOMAIN @ |->
                                              IF s \in to THEN @[s] \cup {LevelNo["CRITICAL"]}
                                              ELSE @[s]]]
           /\ obs' = [ObsInit EXCEPT !.op = "log", !.label = "CRITICAL", !.ret = to]
    /\ UNCHANGED <<now, detVars, running, camera, pcLoop, loc, pcGui, errq, gui, hist,
                   ai, workers>>

\* debug, info, warning, error, critical of a constructed logger object
LogMessage ==
    /\ cfg.phase # "new"
    /\ \E name \in LevelNames :
          LET to == Written(cfg.logger, LevelNo[name]) IN
          /\ cfg' = [cfg EXCEPT !.sinks = [s \in DOMAIN @ |->
                                             IF s \in to THEN @[s] \cup {LevelNo[name]}
                                             ELSE @[s]]]
          /\ obs' = [ObsInit EXCEPT !.op = "log", !.label = name, !.ret = to]
    /\ UNCHANGED <<now, detVars, running, camera, pcLoop, loc, pcGui, errq, gui, hist,
                   ai, workers>>

\* Specification SpecLogging: one process from its start, over any
\* system.log_level setting
InitLogging ==
    /\ now = Epoch
    /\ profile = "extended"
    /\ det = DetInit
    /\ obs = ObsInit
    /\ track = TrackInit
    /\ feed = {}
    /\ running = FALSE
    /\ camera = "None"
    /\ pcLoop = "unstarted"
    /\ loc = [last_gesture_time |-> 0]
    /\ pcGui = "idle"
    /\ errq = <<>>
    /\ gui = [connected |-> FALSE, start_btn |-> "Start Detection"]
    /\ hist = HistInit
    /\ ai = AiInit
    /\ workers = [w \in WorkerIds |-> WorkerFree]
    /\ \E setting \in LogLevelSettings :
          cfg = [phase |-> "new", log_level |-> setting, objects |-> 0,
                 last |-> "none", logger |-> [level |-> 0, handlers |-> <<>>],
                 sinks |-> [s \in {"general", "console", "errors"} |-> {}]]

NextLogging ==
    \/ ConstructApp
    \/ ConstructCore
    \/ HandleException
    \/ LogMessage

SpecLogging == InitLogging /\ [][NextLogging]_vars

\* The level the settings ask for
RequestedLevel ==
    IF cfg.log_level = PyNone THEN LevelNo["INFO"] ELSE LevelOf(cfg.log_level.v)

\* C37: the named logger has its three sinks exactly once
\* however many logger objects were constructed, and once the orchestrator
\* has constructed the logger with system.log_level L, every message of
\* level L and above is written to the general log file.
C37_LevelOverride ==
    /\ cfg.objects > 0 =>
          /\ Len(cfg.logger.handlers) = 3
          /\ {cfg.logger.handlers[i].sink : i \in 1 .. 3} = {"general", "console", "errors"}
    /\ (obs.op = "log" /\ cfg.last = "core" /\ LevelNo[obs.label] >= RequestedLevel)
          => "general" \in obs.ret

====
